---- MODULE Spec2Model ----
(***************************************************************************)
(* A model of the gelix front/middle end: module visibility                *)
(* (crates/gir-nodes/src/declaration.rs), the event-emitting parser        *)
(* (parser/src/lib.rs) and the MIR generator that lowers constructor and   *)
(* function bodies (src/mir/generator).                                    *)
(*                                                                         *)
(* The module holds these state machines:                                  *)
(*   SpecVis      Visibility::from applied to pairs of module paths        *)
(*   SpecParse    the parser's token/event operations and the sink         *)
(*   SpecGen      MIRGenerator lowering constructors and function bodies   *)
(*   SpecLoop     MIRGenerator lowering `for` and `break`                  *)
(*   SpecCall     the arguments of calls, constructor calls and operators  *)
(*   SpecDeclare  DeclarePass declaring classes and functions              *)
(*   SpecWhen     MIRGenerator lowering `when`                             *)
(*   SpecCast     smart casts on the condition of an `if`/`when` branch    *)
(*   SpecInsert   Function::insert_var filling a variable table            *)
(*   SpecFill     FillClassPass filling a class with its members           *)
(*   SpecIR       IRGenerator::expression on the expressions of a block    *)
(***************************************************************************)
EXTENDS Integers, Sequences, FiniteSets, TLC

VARIABLES
    \* ---- Visibility::from -------------------------------------------
    visOwn,         \* module path of the declaring module
    visFrom,        \* module path of the accessing module
    visRes,         \* result of Visibility::from per visibility level
    \* ---- Parser -----------------------------------------------------
    lexemes,        \* Parser.source: the lexemes handed to Parser::new
    srcPos,         \* Parser.source: index of the current lexeme (0-based)
    srcSaved,       \* Parser.source: position kept by Source::save
    events,         \* Parser.events
    errors,         \* Parser.errors
    openNodes,      \* nodes started and not yet finished by the grammar
    pstate,         \* "parsing" | "done" | "panic"
    tree,           \* lexemes of the green tree built by the sink, in order
    \* ---- MIRGenerator ----------------------------------------------
    modPath,        \* path of the module the generator is linked to
    declVis,        \* visibility of the declarations of the other module
    classFields,    \* members of the class whose constructors are lowered
    unitKind,       \* "idle" | "ctors" | "ctor" | "func": what is being generated
    ctorIdx,        \* constructors of the class lowered so far
    unitsRun,       \* generate_function / generate_constructors calls so far
    environments,   \* MIRGenerator.environments (stack of scopes)
    uninit,         \* MIRGenerator.uninitialized_this_members
    frames,         \* the expression() calls in progress, innermost last
    ret,            \* the expression just returned to the innermost frame
    exprCount,      \* expressions expression() returned in this function so far
    immStores,      \* stores to immutable members built in this function, per member
    genErr,         \* the error the running generate_* call returned, if any
    currentLoop,    \* MIRGenerator.current_loop
    limits,         \* the bounds on the expressions of this run
    \* ---- Calls and operators ------------------------------------------
    ifaceImpls,     \* IFACE_IMPLS: the interfaces implemented, per type
    callRes,        \* the last call or operator lowered: its inputs and result
    \* ---- DeclarePass ------------------------------------------------
    declList,       \* the DeclarationList handed to DeclarePass::run
    declPc,         \* what DeclarePass::run does next
    structs,        \* the builder's classes, by name
    functions,      \* the builder's functions, in order of creation
    declErr,        \* the error DeclarePass::run returned, if any
    \* ---- Function::insert_var ---------------------------------------
    fnVariables,    \* Function.variables: the variable table, by name
    insertLog,      \* the insert_var calls so far: the name given and returned
    \* ---- Smart casts ------------------------------------------------
    castIn,         \* the lowered condition of a branch and the branch's expression
    castOut,        \* the scopes and the block of the branch once it is lowered
    \* ---- FillClassPass ----------------------------------------------
    fillFields,     \* the fields the class declares, in declaration order
    astVariables,   \* Class.variables of the AST class (drained by the pass)
    classDef,       \* the builder's class: methods, members, member_order
    initStores,     \* the stores inserted into the class's init function
    fillRes,        \* what fill_class returned, once it has
    \* ---- IRGenerator ------------------------------------------------
    irBody,         \* the expressions of the block that is generated
    irPc,           \* the expression of the block expression() is called on next
    irGen,          \* insert_block, the stack of locals, the log of calls made
    irValue         \* the value of the last expression of the block

visVars   == <<visOwn, visFrom, visRes>>
parseVars == <<lexemes, srcPos, srcSaved, events, errors, openNodes, pstate, tree>>
genVars   == <<modPath, declVis, classFields, unitKind, ctorIdx,
               unitsRun, environments, uninit, frames, ret, exprCount, immStores,
               genErr, currentLoop, limits>>
callVars  == <<ifaceImpls, callRes>>
declVars  == <<declList, declPc, structs, functions, declErr>>
\* the state of the parts that run on their own
tableVars == <<fnVariables, insertLog>>
castVars  == <<castIn, castOut>>
fillVars  == <<fillFields, astVariables, classDef, initStores, fillRes>>
irVars    == <<irBody, irPc, irGen, irValue>>
lateVars  == <<tableVars, castVars, fillVars, irVars>>
restVars  == <<callVars, declVars, lateVars>>
vars      == <<visVars, parseVars, genVars, restVars>>

None == "none"

(***************************************************************************)
(* Visibility (crates/gir-nodes/src/declaration.rs)                        *)
(***************************************************************************)
MaxPathLen == 3

PathParts == {"app", "lib"}

\* A ModPath is its non-empty list of parts.
ModPaths == UNION {[1..n -> PathParts] : n \in 1..MaxPathLen}

Visibilities == {"Private", "Module", "Public"}

\* Mutation: Module visibility compares the innermost part of the paths.
VisibilityFromInnermost(vis, own, from) ==
    CASE vis = "Private" -> from = own
      [] vis = "Module"  -> from[Len(from)] = own[Len(own)]
      [] vis = "Public"  -> TRUE

\* Visibility::from(&self, own, from)
VisibilityFrom(vis, own, from) ==
    CASE vis = "Private" -> from = own
      [] vis = "Module"  -> from[1] = own[1]
      [] vis = "Public"  -> TRUE

\* Visibility::from has not been evaluated.
NoVisRes == [evaluated |-> FALSE]

VisIdle ==
    /\ visOwn = <<"app">>
    /\ visFrom = <<"app">>
    /\ visRes = NoVisRes

VisInit ==
    /\ visOwn \in ModPaths
    /\ visFrom \in ModPaths
    /\ visRes = NoVisRes

\* Visibility::from evaluated for every visibility level on the pair of
\* module paths.
VisibleFrom ==
    /\ ~visRes.evaluated
    /\ visRes' = [evaluated |-> TRUE,
                  Private |-> VisibilityFrom("Private", visOwn, visFrom),
                  Module |-> VisibilityFrom("Module", visOwn, visFrom),
                  Public |-> VisibilityFrom("Public", visOwn, visFrom)]
    /\ UNCHANGED <<visOwn, visFrom, parseVars, genVars, restVars>>

(***************************************************************************)
(* Parser (parser/src/lib.rs)                                              *)
(***************************************************************************)
MaxSrcLen == 2
MaxEvents == 4
MaxErrors == 1

SignificantKinds == {"Identifier", "Semicolon"}
TriviaKinds == {"Whitespace"}
Kinds == SignificantKinds \cup TriviaKinds
EndOfFile == "EndOfFile"
NodeKinds == {"Node"}
Messages == {"Expected token"}

\* SyntaxKind::should_skip: whitespace and comments.
ShouldSkip(kind) == kind \in TriviaKinds

\* The lexemes of a source text: `at` stands for the slice of the text the
\* lexeme borrows, so that two lexemes of one kind are still told apart.
LexemesOf(kinds) == [i \in 1..Len(kinds) |-> [kind |-> kinds[i], at |-> i]]

Sources == UNION {[1..n -> Kinds] : n \in 0..MaxSrcLen}

\* Event::StartNode, Event::StartNodeAt, Event::AddToken, Event::FinishNode
StartNodeEv(kind) == [ev |-> "StartNode", kind |-> kind]
StartNodeAtEv(kind, checkpoint) ==
    [ev |-> "StartNodeAt", kind |-> kind, checkpoint |-> checkpoint]
AddTokenEv(lexeme) == [ev |-> "AddToken", lexeme |-> lexeme]
FinishNodeEv == [ev |-> "FinishNode"]

\* Source::has_next, Source::get_current at a position
HasNext(pos) == pos < Len(lexemes)
GetCurrent(pos) == IF HasNext(pos) THEN lexemes[pos + 1] ELSE None

\* Parser::peek_raw
PeekRaw(pos) == IF HasNext(pos) THEN lexemes[pos + 1].kind ELSE None

\* Parser::skip_whitespace: the position it leaves the source at.
RECURSIVE SkipWhitespace(_)
SkipWhitespace(pos) ==
    IF PeekRaw(pos) # None /\ ShouldSkip(PeekRaw(pos))
    THEN SkipWhitespace(pos + 1)
    ELSE pos

\* Parser::peek: the kind it returns (the source is left at SkipWhitespace).
Peek(pos) ==
    IF PeekRaw(SkipWhitespace(pos)) = None THEN EndOfFile
    ELSE PeekRaw(SkipWhitespace(pos))

\* Parser::advance unwraps get_current after skipping whitespace.
CanAdvance(pos) == HasNext(SkipWhitespace(pos))

\* Parser::advance: the event list after the call.
AdvanceEvents(pos, evs) ==
    Append(evs, AddTokenEv(GetCurrent(SkipWhitespace(pos))))

\* Parser::advance: the source position after the call.
AdvancePos(pos) == SkipWhitespace(pos) + 1

\* Parser::error_at_current
ErrorAtCurrent(errs, pos, msg) == Append(errs, <<pos, msg>>)

\* Sink::eat_whitespace: trivia at the sink's cursor go to the tree.
RECURSIVE EatWhitespace(_, _)
EatWhitespace(cursor, out) ==
    IF cursor < Len(lexemes) /\ ShouldSkip(lexemes[cursor + 1].kind)
    THEN EatWhitespace(cursor + 1, Append(out, lexemes[cursor + 1]))
    ELSE [cursor |-> cursor, out |-> out]

\* Sink::finish: replays the events; a token event puts the event's lexeme
\* in the tree and moves the cursor, and trivia are eaten after each event.
RECURSIVE SinkReplay(_, _, _)
SinkReplay(evs, cursor, out) ==
    IF evs = << >> THEN out
    ELSE LET e == Head(evs)
             tok == IF e.ev = "AddToken"
                    THEN [cursor |-> cursor + 1, out |-> Append(out, e.lexeme)]
                    ELSE [cursor |-> cursor, out |-> out]
             ws == EatWhitespace(tok.cursor, tok.out)
         IN SinkReplay(Tail(evs), ws.cursor, ws.out)

SinkFinish(evs) == SinkReplay(evs, 0, << >>)

ParseIdle ==
    /\ lexemes = << >>
    /\ srcPos = 0
    /\ srcSaved = 0
    /\ events = << >>
    /\ errors = << >>
    /\ openNodes = 0
    /\ pstate = "idle"
    /\ tree = << >>

\* Parser::new followed by the start of Parser::parse (start_node(Root)).
ParseInit ==
    /\ lexemes \in {LexemesOf(ks) : ks \in Sources}
    /\ srcPos = 0
    /\ srcSaved = 0
    /\ events = <<StartNodeEv("Root")>>
    /\ errors = << >>
    /\ openNodes = 0
    /\ pstate = "parsing"
    /\ tree = << >>

Parsing == pstate = "parsing"

\* The effect of a call of advance() made by an operation.
DoAdvance ==
    IF CanAdvance(srcPos)
    THEN /\ Len(events) < MaxEvents
         /\ events' = AdvanceEvents(srcPos, events)
         /\ srcPos' = AdvancePos(srcPos)
         /\ pstate' = pstate
    ELSE /\ srcPos' = SkipWhitespace(srcPos)
         /\ pstate' = "panic"
         /\ events' = events

\* Parser::matches
Matches ==
    /\ Parsing
    /\ \E kind \in SignificantKinds :
          IF Peek(srcPos) = kind
          THEN DoAdvance
          ELSE /\ srcPos' = SkipWhitespace(srcPos)
               /\ UNCHANGED <<events, pstate>>
    /\ UNCHANGED <<lexemes, srcSaved, errors, openNodes, tree, visVars, genVars, restVars>>

\* Mutation: consume reports the error and skips the unexpected token.
ConsumeOfSkipping(kind, msg) ==
    IF Peek(srcPos) # kind
    THEN /\ Len(errors) < MaxErrors
         /\ errors' = ErrorAtCurrent(errors, SkipWhitespace(srcPos), msg)
         /\ DoAdvance
    ELSE /\ DoAdvance
         /\ UNCHANGED errors

\* Parser::consume(kind, msg)
ConsumeOf(kind, msg) ==
    IF Peek(srcPos) # kind
    THEN /\ Len(errors) < MaxErrors
         /\ srcPos' = SkipWhitespace(srcPos)
         /\ errors' = ErrorAtCurrent(errors, SkipWhitespace(srcPos), msg)
         /\ UNCHANGED <<events, pstate>>
    ELSE /\ DoAdvance
         /\ UNCHANGED errors

\* Parser::consume called by the grammar.
Consume ==
    /\ Parsing
    /\ \E kind \in SignificantKinds, msg \in Messages : ConsumeOf(kind, msg)
    /\ UNCHANGED <<lexemes, srcSaved, openNodes, tree, visVars, genVars, restVars>>

\* Parser::consume_either(kind1, kind2, msg)
ConsumeEitherOf(kind1, kind2, msg) ==
    IF Peek(srcPos) # kind1 /\ Peek(srcPos) # kind2
    THEN /\ Len(errors) < MaxErrors
         /\ srcPos' = SkipWhitespace(srcPos)
         /\ errors' = ErrorAtCurrent(errors, SkipWhitespace(srcPos), msg)
         /\ UNCHANGED <<events, pstate>>
    ELSE /\ DoAdvance
         /\ UNCHANGED errors

\* Parser::consume_either called by the grammar.
ConsumeEither ==
    /\ Parsing
    /\ \E kind1 \in SignificantKinds, kind2 \in SignificantKinds, msg \in Messages :
          ConsumeEitherOf(kind1, kind2, msg)
    /\ UNCHANGED <<lexemes, srcSaved, openNodes, tree, visVars, genVars, restVars>>

\* Parser::check_next: save, advance, check, restore.  Source::restore puts
\* the source back at the saved position; the event list is not restored.
CheckNext ==
    /\ Parsing
    /\ srcSaved' = srcPos
    /\ IF CanAdvance(srcPos)
       THEN /\ Len(events) < MaxEvents
            /\ events' = AdvanceEvents(srcPos, events)
            /\ srcPos' = srcPos
            /\ pstate' = pstate
       ELSE /\ srcPos' = SkipWhitespace(srcPos)
            /\ pstate' = "panic"
            /\ events' = events
    /\ UNCHANGED <<lexemes, errors, openNodes, tree, visVars, genVars, restVars>>

\* Parser::advance called by the grammar.
Advance ==
    /\ Parsing
    /\ DoAdvance
    /\ UNCHANGED <<lexemes, srcSaved, errors, openNodes, tree, visVars, genVars, restVars>>

\* Parser::advance_checked
AdvanceChecked ==
    /\ Parsing
    /\ IF ~HasNext(srcPos)
       THEN UNCHANGED <<srcPos, events, pstate>>
       ELSE DoAdvance
    /\ UNCHANGED <<lexemes, srcSaved, errors, openNodes, tree, visVars, genVars, restVars>>

\* Parser::start_node
StartNode ==
    /\ Parsing
    /\ Len(events) < MaxEvents - 1
    /\ \E kind \in NodeKinds : events' = Append(events, StartNodeEv(kind))
    /\ openNodes' = openNodes + 1
    /\ UNCHANGED <<lexemes, srcPos, srcSaved, errors, pstate, tree, visVars, genVars, restVars>>

\* Parser::start_node_at with a checkpoint taken earlier by checkpoint().
StartNodeAt ==
    /\ Parsing
    /\ Len(events) < MaxEvents - 1
    /\ \E kind \in NodeKinds, checkpoint \in 1..Len(events) :
          events' = Append(events, StartNodeAtEv(kind, checkpoint))
    /\ openNodes' = openNodes + 1
    /\ UNCHANGED <<lexemes, srcPos, srcSaved, errors, pstate, tree, visVars, genVars, restVars>>

\* Parser::end_node
EndNode ==
    /\ Parsing
    /\ openNodes > 0
    /\ events' = Append(events, FinishNodeEv)
    /\ openNodes' = openNodes - 1
    /\ UNCHANGED <<lexemes, srcPos, srcSaved, errors, pstate, tree, visVars, genVars, restVars>>

\* Parser::parse once the declaration loop ends: end_node, Sink::finish.
ParseFinish ==
    /\ Parsing
    /\ ~HasNext(srcPos)
    /\ openNodes = 0
    /\ events' = Append(events, FinishNodeEv)
    /\ tree' = SinkFinish(events')
    /\ pstate' = "done"
    /\ UNCHANGED <<lexemes, srcPos, srcSaved, errors, openNodes, visVars, genVars, restVars>>

ParseNext ==
    \/ Matches
    \/ Consume
    \/ ConsumeEither
    \/ CheckNext
    \/ Advance
    \/ AdvanceChecked
    \/ StartNode
    \/ StartNodeAt
    \/ EndNode
    \/ ParseFinish

(***************************************************************************)
(* MIR generator (src/mir/generator/mod.rs, src/mir/generator/gen_expr.rs) *)
(***************************************************************************)
MaxUnits == 2
MaxCtors == 2
MaxExprs == 3
MaxDepth == 2

cfgVars == <<modPath, declVis, classFields, limits>>

\* ---- Types ------------------------------------------------------------
NoType == "no type"
PrimitiveTypes == {"None", "Any", "Bool", "I32", "I64"}
ClosureType == "Closure"
ClassTypes == {"C", "P"}
FunctionTypes == {"fn f", "fn g"}
\* the type of method m of class C
MethodTypes == {"fn C.m"}

\* Type::Type(T), the type of a TypeGet expression
TypeTypeOf(t) ==
    CASE t = "I32" -> "Type(I32)"
      [] t = "C"   -> "Type(C)"
      [] t = "P"   -> "Type(P)"
      [] OTHER     -> NoType
IsTypeType(t) == t \in {"Type(I32)", "Type(C)", "Type(P)"}
AsType(t) ==
    CASE t = "Type(I32)" -> "I32"
      [] t = "Type(C)"   -> "C"
      [] t = "Type(P)"   -> "P"
      [] OTHER           -> NoType

\* The `==` of Type: Any, the type of the expressions that branch away, is
\* equal to every type.
TypeEq(a, b) == a = b \/ a = "Any" \/ b = "Any"

\* Type::is_number
IsNumber(t) == t \in {"I32", "I64"}

\* Type::is_assignable: values of these types can be held by a variable.
IsAssignable(t) == t \in {"Any", "Bool", "I32"} \cup ClassTypes

\* ---- Declarations and modules -----------------------------------------
\* The module being generated declares class C and function f; the module
\* at OtherPath declares class P and function g, which returns a P.
OtherPath == <<"lib">>
OwnDecls == {"C", "f"}
OtherDecls == {"P", "g"}

DeclModule(d) == IF d \in OwnDecls THEN modPath ELSE OtherPath
DeclVisibility(d) == IF d \in OwnDecls THEN "Private" ELSE declVis[d]

\* Declaration::visible, ADT::visible, Function::visible
Visible(d, from) == VisibilityFrom(DeclVisibility(d), DeclModule(d), from)

\* Function.ret_type of the declared functions
FnRet(t) == IF t = "fn g" THEN "P" ELSE "None"

\* Variable { mutable, type_, name }; `self` is bookkeeping for the
\* properties: the variable is `this` of a constructor, or was defined with
\* such a variable as its initializer.
Var(name, ty, mutable) ==
    [name |-> name, ty |-> ty, mutable |-> mutable, self |-> FALSE]
SelfVar(name, ty, mutable) == [Var(name, ty, mutable) EXCEPT !.self = TRUE]
NoVar == [name |-> "no variable"]

\* MModule::find_global: the function variables the module can name, its
\* own and those of other modules that are visible from it.
FindGlobal(name) ==
    CASE name = "f" -> Var("f", "fn f", FALSE)
      [] name = "g" /\ Visible("g", modPath) -> Var("g", "fn g", FALSE)
      [] OTHER -> NoVar

\* MModule::find_type: the types the module can name.
FindType(name) ==
    CASE name = "I32" -> "I32"
      [] name = "C" -> "C"
      [] name = "P" /\ Visible("P", modPath) -> "P"
      [] OTHER -> NoType

\* ---- Classes ----------------------------------------------------------
FieldNames == {"x", "y"}
MethodNames == {"m"}

\* ClassMember { mutable, type_, index, has_default_value }
Member(owner, name, ty, index, mutable, default) ==
    [owner |-> owner, name |-> name, ty |-> ty, index |-> index,
     mutable |-> mutable, has_default_value |-> default]
NoMember == [name |-> "no member"]

\* Class.members of a class type; members of other types do not exist.
ClassMember(ty, name) ==
    CASE ty = "C" /\ name \in DOMAIN classFields -> classFields[name]
      [] ty = "P" /\ name = "x" -> Member("P", "x", "I32", 0, FALSE, FALSE)
      [] OTHER -> NoMember

\* The members that stores are counted for: owner and name.
ImmutableKeys == {<<"C", f>> : f \in FieldNames} \cup {<<"P", "x">>}

\* Class.methods of a class type
ClassMethod(ty, name) == ty = "C" /\ name \in MethodNames

\* The classes the generator may be given: x is an I32 and y a Bool member.
ClassChoices ==
    {[f \in FieldNames |->
        Member("C", f, IF f = "x" THEN "I32" ELSE "Bool",
               IF f = "x" THEN 0 ELSE 1,
               IF f = "x" THEN mut ELSE FALSE,
               IF f = "x" THEN def ELSE FALSE)] :
        mut \in BOOLEAN, def \in BOOLEAN}

\* ---- Expressions ------------------------------------------------------
NoRet == [kind |-> "none"]

\* Expr::Literal / Expr::none_const
Literal(ty) == [kind |-> "Literal", ty |-> ty]
NoneConst == Literal("None")
\* Expr::load
VarGet(v) == [kind |-> "VarGet", var |-> v, ty |-> v.ty]
\* Expr::type_get
TypeGet(t) == [kind |-> "TypeGet", of |-> t, ty |-> TypeTypeOf(t)]
\* Expr::store
VarStore(v, value, first) ==
    [kind |-> "VarStore", var |-> v, value |-> value, first_store |-> first,
     ty |-> value.ty]
\* Expr::struct_set
StructSet(member, value, first) ==
    [kind |-> "StructSet", owner |-> member.owner, field |-> member.name,
     index |-> member.index, mutable |-> member.mutable,
     first_store |-> first, ty |-> value.ty]
\* Expr::struct_get
StructGet(object, member) ==
    [kind |-> "StructGet", owner |-> member.owner, field |-> member.name,
     ty |-> member.ty]
\* Expr::call; Expr::get_type of a Call is the callee's ret_type.
Call(callee, args) ==
    [kind |-> "Call", callee |-> callee, args |-> args,
     ty |-> FnRet(callee.ty)]
\* Expr::call(Expr::load(&func), args) of try_method_call: the object is
\* the first argument.
MethodCall(object, name) ==
    Call(VarGet(Var(name, "fn C.m", FALSE)), <<object>>)
\* Type::ClosureCaptured(captured), the type closure() gives the first
\* parameter of the closure's function
ClosureCaptured(captured) == [type |-> "ClosureCaptured", captured |-> captured]
\* Expr::construct_closure(&global, captured); thisParam is the type of
\* parameters[0] of the function `global` names.
ConstructClosure(thisParam, captured) ==
    [kind |-> "ConstructClosure", thisParam |-> thisParam,
     captured |-> captured, ty |-> ClosureType]
\* ast::expression::LOGICAL_BINARY
LogicalBinary == {"EqualEqual", "BangEqual", "Is"}
\* Expr::binary; Expr::get_type of a Binary or Unary is Bool for the
\* operators of LOGICAL_BINARY and the type of the right operand otherwise.
Binary(left, op, right) ==
    [kind |-> "Binary", op |-> op, left |-> left, right |-> right,
     ty |-> IF op \in LogicalBinary THEN "Bool" ELSE right.ty]
\* Expr::unary
Unary(right, op) ==
    [kind |-> "Unary", op |-> op, right |-> right,
     ty |-> IF op \in LogicalBinary THEN "Bool" ELSE right.ty]
\* Expr::alloc_type
Allocate(ty, constructor, args) ==
    [kind |-> "Allocate", constructor |-> constructor, args |-> args,
     ty |-> ty]
\* Expr::cast
Cast(inner, to) == [kind |-> "Cast", inner |-> inner, ty |-> to]
\* Expr::ret; Expr::get_type of a Return is Any.
Return(value) == [kind |-> "Return", value |-> value, ty |-> "Any"]
\* Expr::break_; Expr::get_type of a Break is Any.
Break(value) == [kind |-> "Break", value |-> value, ty |-> "Any"]
\* Expr::loop_; Expr::get_type of a Loop is its phi_type, or None without
\* one.
Loop(cond, body, else, phi_type) ==
    [kind |-> "Loop", bodyTy |-> body.ty, elseTy |-> else.ty,
     phi_type |-> phi_type,
     ty |-> IF phi_type # NoType THEN phi_type ELSE "None"]
\* Expr::Block
Block(casts, last) == [kind |-> "Block", casts |-> casts, ty |-> last.ty]

\* ---- Loops ------------------------------------------------------------
\* MIRGenerator.current_loop: None, or a ForLoop with its result_var (the
\* type of the variable, NoType while there is none).
NoLoop == [loop |-> FALSE]
ForLoop(resultTy) == [loop |-> TRUE, result_var |-> resultTy]

\* ---- Scopes -----------------------------------------------------------
EmptyScope == [n \in {} |-> NoVar]

\* HashMap::insert on one scope
ScopeInsert(scope, v) ==
    [n \in DOMAIN scope \cup {v.name} |-> IF n = v.name THEN v ELSE scope[n]]

\* MIRGenerator::begin_scope
BeginScope(envs) == Append(envs, EmptyScope)

\* Mutation: end_scope pops nothing.
EndScopeNoPop(envs) == envs

\* MIRGenerator::end_scope (Vec::pop: nothing happens on an empty stack)
EndScope(envs) == IF envs = << >> THEN envs ELSE SubSeq(envs, 1, Len(envs) - 1)

\* MIRGenerator::insert_variable: into the topmost scope.
InsertVariable(envs, v) ==
    [envs EXCEPT ![Len(envs)] = ScopeInsert(envs[Len(envs)], v)]

\* MIRGenerator::define_variable (the function's variable table is not
\* part of this model).
DefineVariable(envs, v) == InsertVariable(envs, v)

\* Mutation: the scopes are searched from the bottom.
RECURSIVE FindInScopesFromBottom(_, _)
FindInScopesFromBottom(envs, name) ==
    IF envs = << >> THEN NoVar
    ELSE IF name \in DOMAIN envs[1] THEN envs[1][name]
    ELSE FindInScopesFromBottom(SubSeq(envs, 2, Len(envs)), name)

\* MIRGenerator::find_var: scopes from the top, then the module globals.
RECURSIVE FindInScopes(_, _)
FindInScopes(envs, name) ==
    IF envs = << >> THEN NoVar
    ELSE IF name \in DOMAIN envs[Len(envs)] THEN envs[Len(envs)][name]
    ELSE FindInScopes(SubSeq(envs, 1, Len(envs) - 1), name)

\* The expression() calls in progress that are closure bodies: each holds
\* what for_closure took from the generator that met the closure.
InClosure == \E i \in 1..Len(frames) : frames[i].kind = "closure"
ClosureFrames == {i \in 1..Len(frames) : frames[i].kind = "closure"}
OutermostClosure ==
    frames[CHOOSE i \in ClosureFrames : \A j \in ClosureFrames : i <= j]
InnermostClosure ==
    frames[CHOOSE i \in ClosureFrames : \A j \in ClosureFrames : i >= j]

\* ClosureData.outer_env of the running generator
OuterEnv == IF InClosure THEN InnermostClosure.outerEnv ELSE << >>

\* MIRGenerator::find_var: what a lookup of `name` pushes on
\* ClosureData.captured (the variable, when it is found in outer_env).
CapturedBy(envs, name) ==
    IF FindInScopes(envs, name) = NoVar /\ FindInScopes(OuterEnv, name) # NoVar
    THEN <<FindInScopes(OuterEnv, name)>>
    ELSE << >>

\* ClosureData.captured of the running generator after pushing `cap`.
Capture(fs, cap) ==
    IF cap = << >> THEN fs
    ELSE LET i == CHOOSE i \in ClosureFrames : \A j \in ClosureFrames : i >= j
         IN [fs EXCEPT ![i].captured = @ \o cap]

\* MIRGenerator::find_var: scopes from the top, then the scopes of the
\* function around the closure, then the module globals.
FindVar(envs, name) ==
    IF FindInScopes(envs, name) # NoVar THEN FindInScopes(envs, name)
    ELSE IF FindInScopes(OuterEnv, name) # NoVar
    THEN FindInScopes(OuterEnv, name)
    ELSE FindGlobal(name)

\* ---- Constructors -----------------------------------------------------
\* The parameter lists a constructor may have, as a map from the name of a
\* parameter to whether it has a type ((Token, Option<ASTType>)): a
\* parameter without a type binds the member of its name.
CtorParamChoices ==
    UNION {[S -> BOOLEAN] : S \in SUBSET {"x"}}

\* Mutation: a parameter with a type binds the member as well.
SetUninitializedMembersAnyParam(typedOf, members) ==
    {name \in DOMAIN members :
        /\ name \notin DOMAIN typedOf
        /\ ~members[name].has_default_value}

\* MIRGenerator::set_uninitialized_members: the set after the call;
\* typedOf maps the name of each parameter to whether it has a type.
SetUninitializedMembers(typedOf, members) ==
    {name \in DOMAIN members :
        /\ ~(\E p \in DOMAIN typedOf : ~typedOf[p] /\ p = name)
        /\ ~members[name].has_default_value}

\* Mutation: the check always passes.
CheckNoUninitializedSkipped(u) == TRUE

\* MIRGenerator::check_no_uninitialized: Ok(()) or the error
CheckNoUninitialized(u) == u = {}

ErrUninitAfterCtor == "Cannot have uninitialized fields after constructor."
ErrMethodInCtor ==
    "Cannot call methods in constructors until all class members are initialized."

\* The scope prepare_function fills with the parameters of a constructor:
\* `this` and one variable per parameter.
CtorScope(typedOf) ==
    [n \in {"this"} \cup DOMAIN typedOf |->
        IF n = "this" THEN SelfVar("this", "C", FALSE)
        ELSE Var(n, classFields[n].ty, FALSE)]

\* ---- The generate_* calls --------------------------------------------
\* An error returned with `?`: the call stack unwinds to the caller of
\* generate_function / generate_constructors; scopes pushed on the way and
\* members still in uninitialized_this_members stay as they are.
Outcome == [err |-> None, envs |-> environments, uninit |-> uninit,
            frames |-> frames, ret |-> NoRet, stores |-> immStores,
            loop |-> currentLoop]

Apply(o) ==
    /\ environments' = o.envs
    /\ uninit' = o.uninit
    /\ currentLoop' = o.loop
    /\ IF o.err # None
       THEN /\ genErr' = o.err
            /\ frames' = << >>
            /\ ret' = NoRet
            /\ unitKind' = "idle"
            /\ exprCount' = exprCount
            /\ immStores' = immStores
       ELSE /\ genErr' = genErr
            /\ frames' = o.frames
            /\ ret' = o.ret
            /\ unitKind' = unitKind
            /\ exprCount' = IF o.ret # NoRet THEN exprCount + 1 ELSE exprCount
            /\ immStores' = o.stores
    /\ UNCHANGED <<ctorIdx, unitsRun, cfgVars, visVars, parseVars, restVars>>

\* closure() returns the error before end_closure: the scopes for_closure
\* took from the outer generator are not given back, and the outer
\* generator's uninitialized_this_members and current_loop are as they
\* were.
Failed(msg) ==
    [Outcome EXCEPT !.err = msg,
                    !.envs = IF InClosure THEN << >> ELSE environments,
                    !.uninit = IF InClosure THEN OutermostClosure.outerUninit
                               ELSE uninit,
                    !.loop = IF InClosure THEN OutermostClosure.outerLoop
                             ELSE currentLoop]
Returned(e) == [Outcome EXCEPT !.ret = e, !.frames = frames]
\* The same, after find_var has pushed `cap` on ClosureData.captured.
ReturnedWith(e, cap) == [Outcome EXCEPT !.ret = e, !.frames = Capture(frames, cap)]

Top == frames[Len(frames)]
Pop(fs) == SubSeq(fs, 1, Len(fs) - 1)
Push(fs, f) == Append(fs, f)
SetTop(fs, f) == [fs EXCEPT ![Len(fs)] = f]

\* No store to an immutable member has been built.
NoStores == [k \in ImmutableKeys |-> 0]

\* expression() is about to be called by the innermost frame.
Awaiting == frames # << >> /\ ret = NoRet /\ exprCount < limits.exprs
\* expression() has returned `ret` to the innermost frame of this kind.
Resumed(kind) == frames # << >> /\ ret # NoRet /\ Top.kind = kind

\* The body of a constructor or function is a block of at least one
\* expression: block() has called begin_scope and lowers the expressions.
Body(retType, params) ==
    [kind |-> "block", body |-> TRUE, retType |-> retType, params |-> params]

\* MIRGenerator::generate_constructors: entry.
GenerateConstructors ==
    /\ unitKind = "idle"
    /\ unitsRun < MaxUnits
    /\ unitKind' = "ctors"
    /\ ctorIdx' = 0
    /\ unitsRun' = unitsRun + 1
    /\ genErr' = None
    /\ UNCHANGED <<environments, uninit, frames, ret, exprCount, immStores,
                   currentLoop, cfgVars, visVars, parseVars, restVars>>

\* generate_constructors, per constructor: prepare_function and
\* set_uninitialized_members, then expression(&constructor.body).
ConstructorBegin ==
    /\ unitKind = "ctors"
    /\ ctorIdx < MaxCtors
    /\ \E typedOf \in CtorParamChoices :
          /\ environments' =
                BeginScope(Append(environments, CtorScope(typedOf)))
          /\ uninit' = SetUninitializedMembers(typedOf, classFields)
          /\ frames' = <<Body("None", typedOf)>>
    /\ unitKind' = "ctor"
    /\ ret' = NoRet
    /\ immStores' = NoStores
    /\ UNCHANGED <<ctorIdx, unitsRun, exprCount, genErr, currentLoop, cfgVars, visVars,
                   parseVars, restVars>>

\* generate_constructors, per constructor, after the body (block() calls
\* end_scope): insert_at_ptr, end_scope, check_no_uninitialized.
ConstructorEnd ==
    /\ unitKind = "ctor"
    /\ Resumed("block")
    /\ Top.body
    /\ environments' = EndScope(EndScope(environments))
    /\ frames' = << >>
    /\ ret' = NoRet
    /\ IF CheckNoUninitialized(uninit)
       THEN /\ unitKind' = "ctors"
            /\ ctorIdx' = ctorIdx + 1
            /\ genErr' = genErr
       ELSE /\ unitKind' = "idle"
            /\ ctorIdx' = 0
            /\ genErr' = ErrUninitAfterCtor
    /\ UNCHANGED <<unitsRun, uninit, exprCount, immStores, currentLoop, cfgVars, visVars,
                   parseVars, restVars>>

\* generate_constructors after the last constructor of the class.
ConstructorsDone ==
    /\ unitKind = "ctors"
    /\ uninit' = {}
    /\ unitKind' = "idle"
    /\ ctorIdx' = 0
    /\ UNCHANGED <<unitsRun, environments, frames, ret, exprCount, immStores,
                   genErr, currentLoop, cfgVars, visVars, parseVars, restVars>>

\* The parameters and the return type a function may have.
FnParamChoices ==
    {[n \in {"a"} |-> Var("a", t, FALSE)] : t \in {"Any", "C"}}
FnRetChoices == {"None", "I32"}

ErrReturnType == "Function return type does not match body type."

\* MIRGenerator::generate_function up to expression(body).
FunctionBegin ==
    /\ unitKind = "idle"
    /\ unitsRun < MaxUnits
    /\ \E params \in FnParamChoices, retType \in FnRetChoices :
          /\ environments' = BeginScope(Append(environments, params))
          /\ frames' = <<Body(retType, params)>>
    /\ unitKind' = "func"
    /\ unitsRun' = unitsRun + 1
    /\ genErr' = None
    /\ ret' = NoRet
    /\ immStores' = NoStores
    /\ UNCHANGED <<ctorIdx, uninit, exprCount, currentLoop, cfgVars, visVars, parseVars, restVars>>

\* Mutation: every body is inserted.
ReturnTypeAcceptedAlways(retType, bodyTy) == TRUE

\* MIRGenerator::generate_function: the body is inserted (as it is, or as
\* the value of a return) when this holds, else the error.
ReturnTypeAccepted(retType, bodyTy) ==
    TypeEq(retType, "None") \/ TypeEq(retType, bodyTy)

\* MIRGenerator::generate_function after expression(body) (block() calls
\* end_scope): the return type is checked, then end_scope.
FunctionEnd ==
    /\ unitKind = "func"
    /\ Resumed("block")
    /\ Top.body
    /\ frames' = << >>
    /\ ret' = NoRet
    /\ unitKind' = "idle"
    /\ IF ReturnTypeAccepted(Top.retType, ret.ty)
       THEN /\ environments' = EndScope(EndScope(environments))
            /\ genErr' = genErr
       ELSE /\ environments' = EndScope(environments)
            /\ genErr' = ErrReturnType
    /\ UNCHANGED <<ctorIdx, unitsRun, uninit, exprCount, immStores, currentLoop, cfgVars,
                   visVars, parseVars, restVars>>

\* ---- expression(): literals, variables, calls ---------------------------
LiteralTypes == {"Bool", "I32"}
VarRefNames == {"this", "a", "g", "P"}
CalleeNames == {"g", "a"}

\* format!("Variable '{}' is not defined", name)
ErrNotDefined(name) == "Variable '" \o name \o "' is not defined"
ErrNotCallable == "Only functions are allowed to be called"

\* Res<Expr>: Ok(expr) or Err(message); cap lists the variables find_var
\* pushed on ClosureData.captured on the way.
Ok(e) == [err |-> None, expr |-> e, cap |-> << >>]
Err(msg) == [err |-> msg, expr |-> NoRet, cap |-> << >>]
OkWith(e, cap) == [Ok(e) EXCEPT !.cap = cap]

\* What expression() does with a Res of a call it made: `?` on an error,
\* the expression otherwise.
Try(r) == IF r.err # None THEN Failed(r.err) ELSE ReturnedWith(r.expr, r.cap)

\* MIRGenerator::literal (plain literals)
LowerLiteral ==
    /\ Awaiting
    /\ \E ty \in LiteralTypes : Apply(Returned(Literal(ty)))

\* MIRGenerator::var
Variable(envs, name) ==
    IF FindVar(envs, name) # NoVar
    THEN OkWith(VarGet(FindVar(envs, name)), CapturedBy(envs, name))
    ELSE IF FindType(name) # NoType THEN Ok(TypeGet(FindType(name)))
    ELSE Err(ErrNotDefined(name))

\* MIRGenerator::call of a callee that is a plain name, without arguments:
\* try_method_call and try_constructor_call fall through for a function.
CallOf(envs, name) ==
    LET callee == Variable(envs, name)
    IN IF callee.err # None THEN callee
       ELSE IF callee.expr.ty \in FunctionTypes
       THEN OkWith(Call(callee.expr, << >>), callee.cap)
       ELSE Err(ErrNotCallable)

\* expression() of the variable `name` or of the call `name()`
LowerVar ==
    /\ Awaiting
    /\ \E name \in VarRefNames : Apply(Try(Variable(environments, name)))

LowerCall ==
    /\ Awaiting
    /\ \E name \in CalleeNames : Apply(Try(CallOf(environments, name)))

\* ---- expression(): return ------------------------------------------------
\* `return` without a value, or with a literal as its value
ReturnValues == {NoneConst} \cup {Literal(ty) : ty \in {"I32"}}

ErrReturnWrongType == "Return expression in function has wrong type"

\* Function.ret_type of cur_fn(): that of the function being generated; a
\* constructor and the function of a closure literal have none.
CurFnRetType == IF InClosure THEN "None" ELSE frames[1].retType

\* MIRGenerator::return_
ReturnOf(value, retType) ==
    IF ~TypeEq(value.ty, retType) THEN Err(ErrReturnWrongType)
    ELSE Ok(Return(value))

\* expression() of `return` / `return value`
LowerReturn ==
    /\ Awaiting
    /\ \E value \in ReturnValues : Apply(Try(ReturnOf(value, CurFnRetType)))

\* ---- expression(): blocks -----------------------------------------------
\* MIRGenerator::block of no expressions
BlockEmpty ==
    /\ Awaiting
    /\ Apply(Returned(NoneConst))

\* MIRGenerator::block: begin_scope, then the first expression.
BlockBegin ==
    /\ Awaiting
    /\ Len(frames) < limits.depth
    /\ Apply([Outcome EXCEPT !.envs = BeginScope(environments),
                             !.frames = Push(frames, [kind |-> "block",
                                                      body |-> FALSE])])

\* MIRGenerator::block: an expression of the block returned, more follow.
BlockItem ==
    /\ Resumed("block")
    /\ exprCount < limits.exprs
    /\ Apply(Outcome)

\* MIRGenerator::block: the last expression returned; end_scope.
BlockEnd ==
    /\ Resumed("block")
    /\ ~Top.body
    /\ Apply([Outcome EXCEPT !.envs = EndScope(environments),
                             !.frames = Pop(frames),
                             !.ret = Block(<< >>, ret)])

\* ---- expression(): variable definition and assignment --------------------
LocalNames == {"a"}
\* `var` and `val`: ASTVar.mutable
VarDefKinds == BOOLEAN
AssignNames == {"a", "g"}

ErrCannotAssignType == "Cannot assign type to a variable."
ErrAssignDifferentType == "Variable is a different type"
ErrAssignNotAssignable == "Variable is not assignable (val)"

\* MIRGenerator::var_def up to expression(&var.initializer)
VarDefBegin ==
    /\ Awaiting
    /\ Len(frames) < limits.depth
    /\ \E name \in LocalNames, mutable \in VarDefKinds :
          Apply([Outcome EXCEPT !.frames =
                    Push(frames, [kind |-> "vardef", name |-> name,
                                  mutable |-> mutable])])

\* The variable var_def defines for `var name = init` / `val name = init`
DefinedVar(def, init) ==
    IF init.kind = "VarGet" /\ init.var.self
    THEN SelfVar(def.name, init.ty, def.mutable)
    ELSE Var(def.name, init.ty, def.mutable)

\* MIRGenerator::var_def after the initializer
VarDefEnd ==
    /\ Resumed("vardef")
    /\ Apply(IF IsAssignable(ret.ty)
             THEN [Outcome EXCEPT
                     !.envs = DefineVariable(environments,
                                             DefinedVar(Top, ret)),
                     !.frames = Pop(frames),
                     !.ret = VarStore(DefinedVar(Top, ret), ret, TRUE)]
             ELSE Failed(ErrCannotAssignType))

\* Mutation: the mutability of the variable is not looked at.
AssignmentAcceptedAnyVar(var, valTy) == TypeEq(valTy, var.ty)

\* MIRGenerator::assignment: the condition under which a store is built.
AssignmentAccepted(var, valTy) == TypeEq(valTy, var.ty) /\ var.mutable

\* MIRGenerator::assignment up to expression(value): find_var
AssignmentBegin ==
    /\ Awaiting
    /\ Len(frames) < limits.depth
    /\ \E name \in AssignNames :
          Apply(IF FindVar(environments, name) = NoVar
                THEN Failed(ErrNotDefined(name))
                ELSE [Outcome EXCEPT !.frames =
                        Push(Capture(frames, CapturedBy(environments, name)),
                             [kind |-> "assign",
                              var |-> FindVar(environments, name)])])

\* MIRGenerator::assignment after the value
AssignmentEnd ==
    /\ Resumed("assign")
    /\ Apply(IF AssignmentAccepted(Top.var, ret.ty)
             THEN [Outcome EXCEPT !.frames = Pop(frames),
                                  !.ret = VarStore(Top.var, ret, FALSE)]
             ELSE IF ~Top.var.mutable
             THEN Failed(ErrAssignDifferentType)
             ELSE Failed(ErrAssignNotAssignable))

\* ---- expression(): members of objects -----------------------------------
\* The object of a get, set or method call is the variable `name` or the
\* call `name()`.
ObjectAsts ==
    {[node |-> "Variable", name |-> n] : n \in {"this", "a"}}
        \cup {[node |-> "Call", name |-> "g"]}
SetNames == {"x", "y", "m"}
GetNames == {"x", "m"}
MethodCallNames == {"m", "x"}

ErrUnknownField == "Unknown field or method."
ErrSetMethod == "Cannot set class method"
ErrSetDifferentType == "Class member is a different type"
ErrSetImmutable == "Cannot set immutable class member"
ErrGetMethod == "Cannot get class method (must be called)"
ErrGetUninit == "Cannot get uninitialized class member."
ErrCallMember == "Class members cannot be called."

\* expression(object) for the objects above
Object(envs, ast) ==
    IF ast.node = "Variable" THEN Variable(envs, ast.name)
    ELSE CallOf(envs, ast.name)

\* MIRGenerator::get_field after expression(object): "field", "method" or
\* "unknown" (find_associated_method finds the methods of a class).
FieldKind(ty, name) ==
    IF ClassMember(ty, name) # NoMember THEN "field"
    ELSE IF ClassMethod(ty, name) THEN "method"
    ELSE "unknown"

\* Mutation: an immutable member may be stored whether or not it is in
\* uninitialized_this_members.
SetAcceptedAlways(member, valTy, u) == TypeEq(valTy, member.ty)

\* MIRGenerator::set: the two checks that come before the store is built.
SetAccepted(member, valTy, u) ==
    /\ TypeEq(valTy, member.ty)
    /\ member.mutable \/ member.name \in u

\* MIRGenerator::set up to expression(value): get_field, field.left()
SetBegin ==
    /\ Awaiting
    /\ Len(frames) < limits.depth
    /\ \E ast \in ObjectAsts, name \in SetNames :
          LET object == Object(environments, ast)
          IN Apply(IF object.err # None THEN Failed(object.err)
                   ELSE CASE FieldKind(object.expr.ty, name) = "field" ->
                               [Outcome EXCEPT !.frames =
                                   Push(Capture(frames, object.cap),
                                        [kind |-> "set",
                                         member |-> ClassMember(object.expr.ty,
                                                                name)])]
                          [] FieldKind(object.expr.ty, name) = "method" ->
                               Failed(ErrSetMethod)
                          [] OTHER -> Failed(ErrUnknownField))

\* MIRGenerator::set after expression(value)
SetEnd ==
    /\ Resumed("set")
    /\ Apply(IF SetAccepted(Top.member, ret.ty, uninit)
             THEN [Outcome EXCEPT
                     !.uninit = uninit \ {Top.member.name},
                     !.stores =
                        IF Top.member.mutable THEN immStores
                        ELSE [immStores EXCEPT
                                ![<<Top.member.owner, Top.member.name>>] = @ + 1],
                     !.frames = Pop(frames),
                     !.ret = StructSet(Top.member, ret,
                                       Top.member.name \in uninit)]
             ELSE IF ~TypeEq(ret.ty, Top.member.ty) THEN Failed(ErrSetDifferentType)
             ELSE Failed(ErrSetImmutable))

\* MIRGenerator::get
Get(envs, ast, name, u) ==
    LET object == Object(envs, ast)
    IN IF object.err # None THEN object
       ELSE CASE FieldKind(object.expr.ty, name) = "unknown" ->
                    Err(ErrUnknownField)
              [] FieldKind(object.expr.ty, name) = "method" -> Err(ErrGetMethod)
              [] OTHER ->
                    IF name \in u THEN Err(ErrGetUninit)
                    ELSE OkWith(StructGet(object.expr,
                                          ClassMember(object.expr.ty, name)),
                                object.cap)

\* expression() of `object.name`
LowerGet ==
    /\ Awaiting
    /\ \E ast \in ObjectAsts, name \in GetNames :
          Apply(Try(Get(environments, ast, name, uninit)))

\* MIRGenerator::try_method_call: the check made before get_field
MethodCallAllowed(u) == u = {}

\* MIRGenerator::try_method_call for a callee `object.name`; the method
\* takes no arguments besides the object.
TryMethodCall(envs, ast, name, u) ==
    IF ~MethodCallAllowed(u) THEN Err(ErrMethodInCtor)
    ELSE LET object == Object(envs, ast)
         IN IF object.err # None THEN object
            ELSE CASE FieldKind(object.expr.ty, name) = "unknown" ->
                         Err(ErrUnknownField)
                   [] FieldKind(object.expr.ty, name) = "field" ->
                         Err(ErrCallMember)
                   [] OTHER -> OkWith(MethodCall(object.expr, name), object.cap)

\* expression() of `object.name()`
LowerMethodCall ==
    /\ Awaiting
    /\ \E ast \in ObjectAsts, name \in MethodCallNames :
          Apply(Try(TryMethodCall(environments, ast, name, uninit)))

\* ---- expression(): `is`, if and smart casts ------------------------------
IsLeftNames == {"a"}
IsRightNames == {"C", "a"}

ErrNoOperator == "No implementation of operator found for types."
ErrIfCondition == "If condition must be a boolean"

\* MIRGenerator::binary and binary_mir for `left is right`, both names
Is(envs, l, r) ==
    LET left == Variable(envs, l)
        right == Variable(envs, r)
    IN IF left.err # None THEN left
       ELSE IF right.err # None THEN right
       ELSE IF (TypeEq(left.expr.ty, right.expr.ty) /\ IsNumber(left.expr.ty))
               \/ IsTypeType(right.expr.ty)
       THEN OkWith(Binary(left.expr, "Is", right.expr), left.cap \o right.cap)
       ELSE Err(ErrNoOperator)

\* expression() of `left is right`
LowerIs ==
    /\ Awaiting
    /\ \E l \in IsLeftNames, r \in IsRightNames :
          Apply(Try(Is(environments, l, r)))

\* MIRGenerator::find_casts on a lowered condition (conditions joined by
\* `and` are not generated here): the variable a smart cast defines, or
\* NoVar.
FindCasts(cond) ==
    IF cond.kind = "Binary" /\ cond.op = "Is" /\ cond.left.kind = "VarGet"
    THEN [cond.left.var EXCEPT !.ty = AsType(cond.right.ty),
                               !.mutable = FALSE]
    ELSE NoVar

\* MIRGenerator::smart_casts: the scopes after the call.
SmartCastScopes(envs, cond) ==
    IF FindCasts(cond) = NoVar THEN envs
    ELSE InsertVariable(envs, FindCasts(cond))

\* MIRGenerator::smart_casts: the stores put in front of the then-branch.
SmartCasts(cond) ==
    IF FindCasts(cond) = NoVar THEN << >>
    ELSE <<VarStore(FindCasts(cond), Cast(cond.left, AsType(cond.right.ty)),
                    TRUE)>>

\* Mutation: branches of the same type always give a phi.
IfPhiOnEqualTypes(thenTy, elseTy) == TypeEq(thenTy, elseTy)

\* MIRGenerator::if_: `phi`
IfPhi(thenTy, elseTy) ==
    /\ TypeEq(thenTy, elseTy)
    /\ ~TypeEq(thenTy, "None") \/ ~TypeEq(elseTy, "None")

\* Expr::if_: phi_type is the type of the then-branch when there is a phi;
\* Expr::get_type of an If is its phi_type, or None without one. thenTy and
\* elseTy are the types of then_branch and else_branch.
If(cond, then, else) ==
    [kind |-> "If", thenTy |-> then.ty, elseTy |-> else.ty,
     phi_type |-> IF IfPhi(then.ty, else.ty) THEN then.ty ELSE NoType,
     ty |-> IF IfPhi(then.ty, else.ty) THEN then.ty ELSE "None"]

\* MIRGenerator::if_ up to expression(condition)
IfBegin ==
    /\ Awaiting
    /\ Len(frames) < limits.depth
    /\ Apply([Outcome EXCEPT !.frames =
                Push(frames, [kind |-> "if", stage |-> "cond",
                              before |-> << >>, cond |-> NoRet,
                              then |-> NoRet])])

\* MIRGenerator::if_ after the condition: begin_scope and smart_casts, then
\* expression(then_branch). `before` keeps the scopes as they were.
IfCond ==
    /\ Resumed("if")
    /\ Top.stage = "cond"
    /\ Apply(IF ~TypeEq(ret.ty, "Bool") THEN Failed(ErrIfCondition)
             ELSE [Outcome EXCEPT
                     !.envs = SmartCastScopes(BeginScope(environments), ret),
                     !.frames = SetTop(frames, [Top EXCEPT
                                    !.stage = "then",
                                    !.before = environments,
                                    !.cond = ret])])

\* MIRGenerator::if_ after the then-branch when there is an else branch:
\* end_scope, then expression(else_branch).
IfThen ==
    /\ Resumed("if")
    /\ Top.stage = "then"
    /\ exprCount < limits.exprs
    /\ Apply([Outcome EXCEPT
                !.envs = EndScope(environments),
                !.frames = SetTop(frames, [Top EXCEPT
                               !.stage = "else",
                               !.then = Block(SmartCasts(Top.cond), ret)])])

\* MIRGenerator::if_ after the then-branch when there is no else branch.
IfThenOnly ==
    /\ Resumed("if")
    /\ Top.stage = "then"
    /\ Apply([Outcome EXCEPT
                !.envs = EndScope(environments),
                !.frames = Pop(frames),
                !.ret = If(Top.cond, Block(SmartCasts(Top.cond), ret),
                           NoneConst)])

\* MIRGenerator::if_ after the else branch
IfElse ==
    /\ Resumed("if")
    /\ Top.stage = "else"
    /\ Apply([Outcome EXCEPT !.frames = Pop(frames),
                             !.ret = If(Top.cond, Top.then, ret)])

\* ---- expression(): closures ---------------------------------------------
\* The scopes of the generator for_closure makes, after prepare_function:
\* the closure function's first parameter is FunctionParam::this_param.
ClosureEnvironments ==
    <<EmptyScope, [n \in {"this"} |-> Var("this", "I64", FALSE)]>>

\* MIRGenerator::closure up to the lowering of the closure's body, done by
\* the generator of for_closure: its uninitialized_this_members is empty,
\* its current_loop is None and the scopes of this generator are its
\* ClosureData.outer_env.
ClosureBegin ==
    /\ Awaiting
    /\ Len(frames) < limits.depth
    /\ Apply([Outcome EXCEPT
                !.envs = ClosureEnvironments,
                !.uninit = {},
                !.loop = NoLoop,
                !.frames = Push(frames, [kind |-> "closure",
                                         outerEnv |-> environments,
                                         outerUninit |-> uninit,
                                         outerLoop |-> currentLoop,
                                         captured |-> << >>])])

\* Mutation: the type is built before the body has been lowered.
ThisParamCapturedBeforeBody(captured) == << >>

\* closure(): the list the ClosureCaptured type of the function's first
\* parameter is given, from closure_data.captured.
ThisParamCaptured(captured) == captured

\* MIRGenerator::closure after the body (a closure without a return type):
\* end_closure gives the scopes back, the closure is stored in a variable.
ClosureEnd ==
    /\ Resumed("closure")
    /\ Apply([Outcome EXCEPT
                !.envs = DefineVariable(Top.outerEnv,
                                        Var("closure-literal", ClosureType,
                                            FALSE)),
                !.uninit = Top.outerUninit,
                !.loop = Top.outerLoop,
                !.frames = Pop(frames),
                !.ret = VarStore(Var("closure-literal", ClosureType, FALSE),
                                 ConstructClosure(
                                     ClosureCaptured(
                                         ThisParamCaptured(Top.captured)),
                                     Top.captured),
                                 TRUE)])

\* ---- The generator -------------------------------------------------------
\* The bounds of a run of the generator: how deep expressions nest and how
\* many are lowered.
GenLimits == [depth |-> MaxDepth, exprs |-> MaxExprs]

GenModPaths == {<<"lib", "app">>}
\* From that module a Module declaration of the other module is visible as
\* a Public one is.
GenVisibilities == {"Private", "Public"}

\* The class and the visibilities of a generator that is never run, and of
\* the runs that vary the other of the two.
PlainClass ==
    [f \in FieldNames |->
        Member("C", f, IF f = "x" THEN "I32" ELSE "Bool",
               IF f = "x" THEN 0 ELSE 1, FALSE, FALSE)]
AllPublic == [d \in OtherDecls |-> "Public"]

\* A generator that is never run.
GenIdle ==
    /\ modPath = <<"app">>
    /\ declVis = AllPublic
    /\ classFields = PlainClass
    /\ unitKind = "off"
    /\ ctorIdx = 0
    /\ unitsRun = 0
    /\ environments = << >>
    /\ uninit = {}
    /\ frames = << >>
    /\ ret = NoRet
    /\ exprCount = 0
    /\ immStores = NoStores
    /\ genErr = None
    /\ currentLoop = NoLoop
    /\ limits = GenLimits

\* MIRGenerator::new, for some module and some class of that module.
GenInit ==
    /\ \/ /\ modPath = <<"lib", "app">>
          /\ declVis = AllPublic
          /\ classFields \in ClassChoices
       \/ /\ modPath \in GenModPaths
          /\ declVis \in [OtherDecls -> GenVisibilities]
          /\ classFields = PlainClass
    /\ unitKind = "idle"
    /\ ctorIdx = 0
    /\ unitsRun = 0
    /\ environments = << >>
    /\ uninit = {}
    /\ frames = << >>
    /\ ret = NoRet
    /\ exprCount = 0
    /\ immStores = NoStores
    /\ genErr = None
    /\ currentLoop = NoLoop
    /\ limits = GenLimits

GenNext ==
    \/ GenerateConstructors
    \/ ConstructorBegin
    \/ ConstructorEnd
    \/ ConstructorsDone
    \/ FunctionBegin
    \/ FunctionEnd
    \/ LowerLiteral
    \/ LowerVar
    \/ LowerCall
    \/ LowerReturn
    \/ LowerIs
    \/ LowerGet
    \/ LowerMethodCall
    \/ BlockEmpty
    \/ BlockBegin
    \/ BlockItem
    \/ BlockEnd
    \/ VarDefBegin
    \/ VarDefEnd
    \/ AssignmentBegin
    \/ AssignmentEnd
    \/ SetBegin
    \/ SetEnd
    \/ IfBegin
    \/ IfCond
    \/ IfThen
    \/ IfThenOnly
    \/ IfElse
    \/ ClosureBegin
    \/ ClosureEnd

\* ---- expression(): for and break ------------------------------------------
MaxLoopExprs == 4
MaxLoopDepth == 4
\* The bounds of a run that lowers loops.
LoopLimits == [depth |-> MaxLoopDepth, exprs |-> MaxLoopExprs]

ErrBreakOutsideLoop == "Break is only allowed in loops."
ErrBreakType == "Break expressions and for body must have same type"
ErrForCondition == "For condition must be a boolean."

\* MIRGenerator::get_or_create_loop_var: the variable it returns has the
\* type asked for.
LoopVarAccepted(varTy, type_) == TypeEq(varTy, type_)

\* MIRGenerator::get_or_create_loop_var: the type of the result variable
\* after the call, that of the variable the loop has or of the one defined
\* now.
LoopVarType(loop, type_) ==
    IF loop.result_var # NoType THEN loop.result_var ELSE type_

\* MIRGenerator::get_or_create_loop_var(type_) on outcome o of the
\* expression that had this type: define_variable when the loop has no
\* result variable, and the error when its type is another one.
GetOrCreateLoopVar(o, type_) ==
    LET defined ==
            [o EXCEPT
               !.envs = IF currentLoop.result_var # NoType THEN environments
                        ELSE DefineVariable(environments,
                                            Var("for-body", type_, TRUE)),
               !.loop = ForLoop(LoopVarType(currentLoop, type_))]
    IN IF LoopVarAccepted(LoopVarType(currentLoop, type_), type_)
       THEN defined
       ELSE [defined EXCEPT !.err = ErrBreakType]

\* MIRGenerator::break_ without a value
LowerBreak ==
    /\ Awaiting
    /\ Apply(IF currentLoop = NoLoop THEN Failed(ErrBreakOutsideLoop)
             ELSE Returned(Break(NoneConst)))

\* MIRGenerator::break_ with a value, up to expression(value)
BreakBegin ==
    /\ Awaiting
    /\ Len(frames) < limits.depth
    /\ Apply(IF currentLoop = NoLoop THEN Failed(ErrBreakOutsideLoop)
             ELSE [Outcome EXCEPT !.frames = Push(frames, [kind |-> "break"])])

\* MIRGenerator::break_ after the value
BreakEnd ==
    /\ Resumed("break")
    /\ Apply(GetOrCreateLoopVar([Outcome EXCEPT !.frames = Pop(frames),
                                                !.ret = Break(ret)],
                                ret.ty))

\* MIRGenerator::for_ up to expression(condition): current_loop is replaced
\* by a new ForLoop and kept in prev_loop.
ForBegin ==
    /\ Awaiting
    /\ Len(frames) < limits.depth
    /\ Apply([Outcome EXCEPT
                !.loop = ForLoop(NoType),
                !.frames = Push(frames, [kind |-> "for", stage |-> "cond",
                                         prev_loop |-> currentLoop,
                                         cond |-> NoRet, body |-> NoRet])])

\* MIRGenerator::for_ after the condition, then expression(body)
ForCond ==
    /\ Resumed("for")
    /\ Top.stage = "cond"
    /\ exprCount < limits.exprs
    /\ Apply(IF ~TypeEq(ret.ty, "Bool") THEN Failed(ErrForCondition)
             ELSE [Outcome EXCEPT
                     !.frames = SetTop(frames, [Top EXCEPT !.stage = "body",
                                                           !.cond = ret])])

\* MIRGenerator::for_ after the body when there is an else branch:
\* get_or_create_loop_var(body_type), then expression(else_b).
ForBody ==
    /\ Resumed("for")
    /\ Top.stage = "body"
    /\ exprCount < limits.exprs
    /\ Apply(GetOrCreateLoopVar(
                [Outcome EXCEPT
                   !.frames = SetTop(frames, [Top EXCEPT !.stage = "else",
                                                         !.body = ret])],
                ret.ty))

\* MIRGenerator::for_ after the body when there is no else branch:
\* current_loop is prev_loop again.
ForBodyOnly ==
    /\ Resumed("for")
    /\ Top.stage = "body"
    /\ Apply(LET o == GetOrCreateLoopVar(
                         [Outcome EXCEPT
                            !.frames = Pop(frames),
                            !.ret = Loop(Top.cond, ret, NoneConst, NoType)],
                         ret.ty)
             IN IF o.err # None THEN o ELSE [o EXCEPT !.loop = Top.prev_loop])

\* MIRGenerator::for_ after the else branch: the loop has a result when the
\* else branch has the type of the body.
ForElse ==
    /\ Resumed("for")
    /\ Top.stage = "else"
    /\ Apply([Outcome EXCEPT
                !.loop = Top.prev_loop,
                !.frames = Pop(frames),
                !.ret = Loop(Top.cond, Top.body, ret,
                             IF TypeEq(ret.ty, Top.body.ty)
                             THEN currentLoop.result_var ELSE NoType)])

\* MIRGenerator::new for a module whose functions hold loops.
LoopInit ==
    /\ modPath = <<"app">>
    /\ declVis = AllPublic
    /\ classFields = PlainClass
    /\ unitKind = "idle"
    /\ ctorIdx = 0
    /\ unitsRun = 0
    /\ environments = << >>
    /\ uninit = {}
    /\ frames = << >>
    /\ ret = NoRet
    /\ exprCount = 0
    /\ immStores = NoStores
    /\ genErr = None
    /\ currentLoop = NoLoop
    /\ limits = LoopLimits

LoopNext ==
    \/ FunctionBegin
    \/ FunctionEnd
    \/ LowerLiteral
    \/ BlockBegin
    \/ BlockItem
    \/ BlockEnd
    \/ ClosureBegin
    \/ ClosureEnd
    \/ LowerBreak
    \/ BreakBegin
    \/ BreakEnd
    \/ ForBegin
    \/ ForCond
    \/ ForBody
    \/ ForBodyOnly
    \/ ForElse

(***************************************************************************)
(* Calls and operators: generate_func_args, try_constructor_call and       *)
(* binary_mir, applied to arguments and operands that are already lowered. *)
(***************************************************************************)
MaxParams == 2
MaxArgs == 3
MaxConstructors == 2

SeqsUpTo(S, n) == UNION {[1..k -> S] : k \in 0..n}

\* ---- IFACE_IMPLS ---------------------------------------------------------
\* `Show` is an interface; Add[T] and Equal[T] are the instances of the
\* operator interfaces whose prototypes INTRINSICS holds for + and ==.
NoProto == "no prototype"
\* IFaceImpl { iface, methods }: the interface, its prototype and the
\* parameter types of methods[0].
IFaceImpl(iface, proto, method, parameters) ==
    [iface |-> iface, proto |-> proto,
     method |-> [name |-> method, parameters |-> parameters]]
ShowForC == IFaceImpl("Show", NoProto, "C-show", <<"C">>)
AddI32ForC == IFaceImpl("Add[I32]", "Add", "C-add-i32", <<"C", "I32">>)
AddCForC == IFaceImpl("Add[C]", "Add", "C-add-C", <<"C", "C">>)
EqualCForC == IFaceImpl("Equal[C]", "Equal", "C-equal", <<"C", "C">>)
AddI64ForI32 == IFaceImpl("Add[I64]", "Add", "i32-add-i64", <<"I32", "I64">>)
ShowForI32 == IFaceImpl("Show", NoProto, "i32-show", <<"I32">>)

\* The tables IFACE_IMPLS can hold: per implementor, IFaceImpls.interfaces
\* in the order of the impl blocks.
ImplTables ==
    { [t \in {} |-> << >>],
      [t \in {"C"} |-> <<ShowForC>>],
      [t \in {"C"} |-> <<ShowForC, AddI32ForC, AddCForC, EqualCForC>>],
      [t \in {"C", "I32"} |-> IF t = "C" THEN <<AddCForC, ShowForC>>
                               ELSE <<ShowForI32, AddI64ForI32>>] }

\* get_iface_impls: the interfaces of the type; a type without an entry
\* (None) has none.
GetIfaceImpls(ty) == IF ty \in DOMAIN ifaceImpls THEN ifaceImpls[ty] ELSE << >>

\* IFaceImpls.interfaces.get(iface).is_some()
HasImpl(ty, iface) ==
    \E i \in 1..Len(GetIfaceImpls(ty)) : GetIfaceImpls(ty)[i].iface = iface

\* ---- generate_func_args -------------------------------------------------
ArgTypes == {"I32", "C", "Show"}
ParamTypes == {"I32", "C", "Show"}

ErrArgCount == "Incorrect amount of function arguments."
ErrArgType == "Call argument is the wrong type"
ErrNoConstructor == "No matching constructor found for arguments."
PanicMethodCall == "internal error: method call"

\* expression() of the i-th argument of a call, an argument of type ty:
\* `index` tells the arguments of one type apart.
Argument(i, ty) == [kind |-> "Argument", index |-> i, ty |-> ty]
\* the arguments of a call, lowered
Arguments(tys) == [i \in 1..Len(tys) |-> Argument(i, tys[i])]

\* check_call_arg_type without its tests
CheckCallArgTypeUnchecked(arg, ty) == arg

\* MIRGenerator::check_call_arg_type; NoRet stands for None.
CheckCallArgType(arg, ty) ==
    IF TypeEq(arg.ty, ty) THEN arg
    ELSE IF HasImpl(arg.ty, ty) THEN Cast(arg, ty)
    ELSE NoRet

\* the test on the number of arguments with every function variadic
ArgCountAcceptedAtLeast(para_len, args_len, allow_variadic) ==
    ~(para_len > args_len)

\* generate_func_args: the test on the number of arguments
ArgCountAccepted(para_len, args_len, allow_variadic) ==
    ~(para_len > args_len \/ (para_len < args_len /\ ~allow_variadic))

\* generate_func_args: the loop over arguments.iter().zip(parameters), from
\* the i-th pair on
RECURSIVE CheckedArgs(_, _, _, _)
CheckedArgs(parameters, arguments, i, result) ==
    IF i > Len(arguments) \/ i > Len(parameters) THEN Ok(result)
    ELSE LET arg == CheckCallArgType(Argument(i, arguments[i]), parameters[i])
         IN IF arg = NoRet THEN Err(ErrArgType)
            ELSE CheckedArgs(parameters, arguments, i + 1, Append(result, arg))

\* generate_func_args: the loop over arguments.iter().skip(result.len())
RestArgs(arguments, result) ==
    result \o [i \in 1..(IF Len(arguments) > Len(result)
                          THEN Len(arguments) - Len(result) ELSE 0) |->
                  Argument(Len(result) + i, arguments[Len(result) + i])]

\* MIRGenerator::generate_func_args; first_arg is NoRet for None.
GenerateFuncArgs(parameters, arguments, first_arg, allow_variadic) ==
    LET args_len == Len(arguments) + (IF first_arg # NoRet THEN 1 ELSE 0)
    IN IF ~ArgCountAccepted(Len(parameters), args_len, allow_variadic)
       THEN Err(ErrArgCount)
       ELSE IF first_arg = NoRet
       THEN LET checked == CheckedArgs(parameters, arguments, 1, << >>)
            IN IF checked.err # None THEN checked
               ELSE Ok(RestArgs(arguments, checked.expr))
       ELSE LET first == CheckCallArgType(first_arg, parameters[1])
                checked == CheckedArgs(Tail(parameters), arguments, 1, << >>)
            IN IF first = NoRet THEN Err(PanicMethodCall)
               ELSE IF checked.err # None THEN checked
               ELSE Ok(RestArgs(arguments, <<first>> \o checked.expr))

\* ---- call ---------------------------------------------------------------
\* Function { parameters, ast }: ast is the declaration the function was
\* made from, if there is one, with its sig.variadic.
Asts == {[present |-> FALSE, variadic |-> FALSE],
         [present |-> TRUE, variadic |-> FALSE],
         [present |-> TRUE, variadic |-> TRUE]}
Variadic(ast) == ast.present /\ ast.variadic

\* MIRGenerator::call, the callee a function `h`
CallFunction(parameters, ast, arguments) ==
    LET args == GenerateFuncArgs(parameters, arguments, NoRet, Variadic(ast))
    IN IF args.err # None THEN args
       ELSE Ok(Call(VarGet(Var("h", "fn h", FALSE)), args.expr))

\* MIRGenerator::call, the callee a closure held by variable `k`
CallClosure(parameters, arguments) ==
    LET args == GenerateFuncArgs(parameters, arguments, NoRet, FALSE)
    IN IF args.err # None THEN args
       ELSE Ok(Call(VarGet(Var("k", ClosureType, FALSE)), args.expr))

\* MIRGenerator::try_method_call, the callee `object.m` with m a method
\* get_field found on the type of the object
CallMethod(parameters, object, arguments) ==
    LET args == GenerateFuncArgs(parameters, arguments, object, FALSE)
    IN IF args.err # None THEN args
       ELSE Ok(Call(VarGet(Var("m", "fn m", FALSE)), args.expr))

\* the test of `find` without the types
ConstructorMatchesCount(constructor, args) ==
    Len(constructor.parameters) - 1 = Len(args)

\* MIRGenerator::try_constructor_call: the test of `find` on a constructor
ConstructorMatches(constructor, args) ==
    /\ Len(constructor.parameters) - 1 = Len(args)
    /\ \A i \in 1..Len(args) :
          TypeEq(constructor.parameters[i + 1], args[i].ty)

\* MIRGenerator::try_constructor_call, the callee a class with these
\* constructors
TryConstructorCall(callee_type, constructors, arguments) ==
    LET args == Arguments(arguments)
        found == {i \in 1..Len(constructors) :
                     ConstructorMatches(constructors[i], args)}
    IN IF found = {} THEN Err(ErrNoConstructor)
       ELSE Ok(Allocate(callee_type,
                        constructors[CHOOSE i \in found :
                                        \A j \in found : i <= j],
                        args))

\* A constructor of class C: `this` and the declared parameters.
Constructor(name, parameters) ==
    [name |-> name, parameters |-> <<"C">> \o parameters]
\* The constructor lists of class C (ADT.constructors, in declaration order)
ConstructorLists ==
    { [i \in 1..Len(ps) |-> Constructor(<<"C-constructor-0",
                                           "C-constructor-1",
                                           "C-constructor-2">>[i], ps[i])] :
        ps \in SeqsUpTo(SeqsUpTo({"I32", "C"}, 2), MaxConstructors) \ {<< >>} }

\* ---- binary_mir ----------------------------------------------------------
Operators == {"Plus", "EqualEqual", "BangEqual", "Is"}
OperandTypes == {"I32", "I64", "C", "Type(C)"}

\* Intrinsics::get_op_iface: the prototype of the operator's interface
GetOpIface(op) ==
    CASE op = "Plus" -> "Add"
      [] op \in {"EqualEqual", "BangEqual"} -> "Equal"
      [] OTHER -> NoProto

\* get_operator_overloading_method without the test on the type of the
\* right operand
GetOperatorOverloadingMethodOfLeft(op, left_ty, right_ty) ==
    LET impls == GetIfaceImpls(left_ty)
        op_impls == {i \in 1..Len(impls) :
                        /\ impls[i].proto # NoProto
                        /\ impls[i].proto = GetOpIface(op)}
    IN IF op_impls = {} THEN NoVar
       ELSE Var(impls[CHOOSE i \in op_impls :
                         \A j \in op_impls : i <= j].method.name,
                "fn m", FALSE)

\* MIRGenerator::get_operator_overloading_method: methods[0] of the first
\* impl of the operator's interface whose second parameter has the type of
\* the right operand; NoVar for None.
GetOperatorOverloadingMethod(op, left_ty, right_ty) ==
    LET impls == GetIfaceImpls(left_ty)
        op_impls == {i \in 1..Len(impls) :
                        /\ impls[i].proto # NoProto
                        /\ impls[i].proto = GetOpIface(op)
                        /\ TypeEq(impls[i].method.parameters[2], right_ty)}
    IN IF op_impls = {} THEN NoVar
       ELSE Var(impls[CHOOSE i \in op_impls :
                         \A j \in op_impls : i <= j].method.name,
                "fn m", FALSE)

\* binary_mir: the operands need no method
IsBinary(op, left_ty, right_ty) ==
    \/ TypeEq(left_ty, right_ty) /\ IsNumber(left_ty)
    \/ op = "Is" /\ IsTypeType(right_ty)

\* MIRGenerator::binary_mir
BinaryMir(left, op, right) ==
    IF IsBinary(op, left.ty, right.ty) THEN Ok(Binary(left, op, right))
    ELSE LET method_var == GetOperatorOverloadingMethod(op, left.ty, right.ty)
             expr == Call(VarGet(method_var), <<left, right>>)
         IN IF method_var = NoVar THEN Err(ErrNoOperator)
            ELSE IF op = "BangEqual" THEN Ok(Unary(expr, "Bang"))
            ELSE Ok(expr)

\* ---- The calls and operators lowered -------------------------------------
\* One call or operator is lowered per run.
NoCallYet == callRes.op = "none"
callRest == <<ifaceImpls, visVars, parseVars, genVars, declVars, lateVars>>

\* expression() of `h(arguments)`, h a function
LowerCallFunction ==
    /\ NoCallYet
    /\ \E parameters \in SeqsUpTo(ParamTypes, MaxParams), ast \in Asts,
          arguments \in SeqsUpTo(ArgTypes, MaxArgs) :
           callRes' = [op |-> "call", callee |-> "function",
                       parameters |-> parameters, variadic |-> Variadic(ast),
                       args |-> Arguments(arguments),
                       res |-> CallFunction(parameters, ast, arguments)]
    /\ UNCHANGED callRest

\* expression() of `k(arguments)`, k a closure
LowerCallClosure ==
    /\ NoCallYet
    /\ \E parameters \in SeqsUpTo(ParamTypes, MaxParams),
          arguments \in SeqsUpTo(ArgTypes, MaxArgs) :
           callRes' = [op |-> "call", callee |-> "closure",
                       parameters |-> parameters, variadic |-> FALSE,
                       args |-> Arguments(arguments),
                       res |-> CallClosure(parameters, arguments)]
    /\ UNCHANGED callRest

\* expression() of `object.m(arguments)`, m a method of the object's type:
\* its first parameter is the object; try_method_call does not look at the
\* sig.variadic of the method.
LowerCallMethod ==
    /\ NoCallYet
    /\ \E object \in {"C", "Show"}, ast \in Asts,
          parameters \in SeqsUpTo(ParamTypes, MaxParams - 1),
          arguments \in SeqsUpTo(ArgTypes, MaxArgs - 1) :
           callRes' = [op |-> "call", callee |-> "method",
                       parameters |-> <<object>> \o parameters,
                       variadic |-> Variadic(ast),
                       args |-> <<Argument(0, object)>> \o Arguments(arguments),
                       res |-> CallMethod(<<object>> \o parameters,
                                          Argument(0, object), arguments)]
    /\ UNCHANGED callRest

\* expression() of `C(arguments)`
LowerConstructorCall ==
    /\ NoCallYet
    /\ \E constructors \in ConstructorLists,
          arguments \in SeqsUpTo({"I32", "C"}, MaxArgs) :
           callRes' = [op |-> "new", constructors |-> constructors,
                       args |-> Arguments(arguments),
                       res |-> TryConstructorCall("C", constructors, arguments)]
    /\ UNCHANGED callRest

\* expression() of `left op right`
LowerBinary ==
    /\ NoCallYet
    /\ \E op \in Operators, l \in OperandTypes, r \in OperandTypes :
           callRes' = [op |-> "binary", operator |-> op,
                       left |-> Argument(1, l), right |-> Argument(2, r),
                       res |-> BinaryMir(Argument(1, l), op, Argument(2, r))]
    /\ UNCHANGED callRest

CallNext ==
    \/ LowerCallFunction
    \/ LowerCallClosure
    \/ LowerCallMethod
    \/ LowerConstructorCall
    \/ LowerBinary

\* No call is lowered.
CallIdle ==
    /\ ifaceImpls = [t \in {} |-> << >>]
    /\ callRes = [op |-> "none"]

CallInit ==
    /\ ifaceImpls \in ImplTables
    /\ callRes = [op |-> "none"]

(***************************************************************************)
(* MIRGenerator::when (src/mir/generator/gen_expr.rs)                      *)
(***************************************************************************)
MaxWhenExprs == 7
MaxWhenDepth == 2
\* The bounds of a run that lowers `when` expressions.
WhenLimits == [depth |-> MaxWhenDepth, exprs |-> MaxWhenExprs]

ErrWhenCondition == "Branches of when must be of same type as the value compared."
ErrWhenBranch == "Branch results must be of same type."

\* Expr::Switch: phi_type is the Option it is built with (NoType for None);
\* Expr::get_type of a Switch is its phi_type, or None without one.
Switch(branches, else, phi_type) ==
    [kind |-> "Switch",
     conds |-> [i \in 1..Len(branches) |-> branches[i][1]],
     branchTys |-> [i \in 1..Len(branches) |-> branches[i][2].ty],
     casts |-> [i \in 1..Len(branches) |-> branches[i][2].casts],
     elseTy |-> else.ty,
     phi_type |-> phi_type,
     ty |-> IF phi_type # NoType THEN phi_type ELSE "None"]

\* MIRGenerator::when: the branch has the type of the else branch.
WhenBranchAccepted(branchTy, branch_type) == TypeEq(branchTy, branch_type)

\* MIRGenerator::when: Expr::when(cases, Some(else_val), Some(branch_type))
When(cases, else_val) == Switch(cases, else_val, else_val.ty)

\* MIRGenerator::when: the operator of the condition of a branch
WhenOperator(br_type) == IF IsTypeType(br_type) THEN "Is" ELSE "EqualEqual"

\* MIRGenerator::when: the condition of a branch, from the value compared
\* and the lowered expression of the branch's condition
WhenCondition(value, br_cond) ==
    IF ~TypeEq(br_cond.ty, value.ty) /\ ~IsTypeType(br_cond.ty)
    THEN Err(ErrWhenCondition)
    ELSE BinaryMir(value, WhenOperator(br_cond.ty), br_cond)

\* MIRGenerator::when up to expression(value)
WhenBegin ==
    /\ Awaiting
    /\ Len(frames) < limits.depth
    /\ Apply([Outcome EXCEPT
                !.frames = Push(frames, [kind |-> "when", stage |-> "value",
                                         value |-> NoRet, else |-> NoRet,
                                         cond |-> NoRet, cases |-> << >>])])

\* MIRGenerator::when after the value, then expression(else_branch)
WhenValue ==
    /\ Resumed("when")
    /\ Top.stage = "value"
    /\ exprCount < limits.exprs
    /\ Apply([Outcome EXCEPT
                !.frames = SetTop(frames, [Top EXCEPT !.stage = "else",
                                                      !.value = ret])])

\* MIRGenerator::when after the else branch, with a branch to lower:
\* expression(br_cond_ast)
WhenElse ==
    /\ Resumed("when")
    /\ Top.stage = "else"
    /\ exprCount < limits.exprs
    /\ Apply([Outcome EXCEPT
                !.frames = SetTop(frames, [Top EXCEPT !.stage = "cond",
                                                      !.else = ret])])

\* MIRGenerator::when after the else branch of a `when` without branches
WhenElseOnly ==
    /\ Resumed("when")
    /\ Top.stage = "else"
    /\ Apply([Outcome EXCEPT !.frames = Pop(frames),
                             !.ret = When(<< >>, ret)])

\* MIRGenerator::when after the condition of a branch: the type test and
\* binary_mir, then begin_scope, smart_casts and expression(branch)
WhenCond ==
    /\ Resumed("when")
    /\ Top.stage = "cond"
    /\ exprCount < limits.exprs
    /\ Apply(LET cond == WhenCondition(Top.value, ret)
             IN IF cond.err # None THEN Failed(cond.err)
                ELSE [Outcome EXCEPT
                        !.envs = SmartCastScopes(BeginScope(environments),
                                                 cond.expr),
                        !.frames = SetTop(frames, [Top EXCEPT
                                       !.stage = "branch",
                                       !.cond = cond.expr])])

\* MIRGenerator::when after a branch, with another branch to lower
WhenBranch ==
    /\ Resumed("when")
    /\ Top.stage = "branch"
    /\ exprCount < limits.exprs
    /\ Apply(LET branch_val == Block(SmartCasts(Top.cond), ret)
                 ended == [Outcome EXCEPT !.envs = EndScope(environments)]
             IN IF ~WhenBranchAccepted(branch_val.ty, Top.else.ty)
                THEN [ended EXCEPT !.err = ErrWhenBranch]
                ELSE [ended EXCEPT
                        !.frames = SetTop(frames, [Top EXCEPT
                                       !.stage = "cond",
                                       !.cond = NoRet,
                                       !.cases = Append(@, <<Top.cond,
                                                             branch_val>>)])])

\* MIRGenerator::when after the last branch
WhenBranchLast ==
    /\ Resumed("when")
    /\ Top.stage = "branch"
    /\ Apply(LET branch_val == Block(SmartCasts(Top.cond), ret)
                 ended == [Outcome EXCEPT !.envs = EndScope(environments)]
             IN IF ~WhenBranchAccepted(branch_val.ty, Top.else.ty)
                THEN [ended EXCEPT !.err = ErrWhenBranch]
                ELSE [ended EXCEPT
                        !.frames = Pop(frames),
                        !.ret = When(Append(Top.cases,
                                            <<Top.cond, branch_val>>),
                                     Top.else)])

\* MIRGenerator::new for a module whose functions hold `when` expressions.
WhenInit ==
    /\ modPath = <<"app">>
    /\ declVis = AllPublic
    /\ classFields = PlainClass
    /\ unitKind = "idle"
    /\ ctorIdx = 0
    /\ unitsRun = 0
    /\ environments = << >>
    /\ uninit = {}
    /\ frames = << >>
    /\ ret = NoRet
    /\ exprCount = 0
    /\ immStores = NoStores
    /\ genErr = None
    /\ currentLoop = NoLoop
    /\ limits = WhenLimits

WhenNext ==
    \/ FunctionBegin
    \/ FunctionEnd
    \/ LowerLiteral
    \/ LowerVar
    \/ BlockEmpty
    \/ WhenBegin
    \/ WhenValue
    \/ WhenElse
    \/ WhenElseOnly
    \/ WhenCond
    \/ WhenBranch
    \/ WhenBranchLast

(***************************************************************************)
(* Smart casts: smart_casts and find_casts on the condition of a branch    *)
(* of `if` or `when` (src/mir/generator/gen_expr.rs).                      *)
(***************************************************************************)
MaxCondDepth == 2

\* The variables in scope when the branch is met.
CastScopes ==
    <<[n \in {"a", "b"} |-> Var(n, "Any", TRUE)]>>

\* The conditions without an operand that is a condition: `x is T` for a
\* variable x, `x.f is T`, and a boolean literal.
CondAtoms ==
    {Binary(VarGet(CastScopes[1][n]), "Is", TypeGet(t)) :
        n \in {"a", "b"}, t \in {"C"}}
    \cup {Binary(VarGet(CastScopes[1]["a"]), "Is", TypeGet("P")),
          Binary(StructGet(VarGet(CastScopes[1]["a"]),
                           Member("C", "x", "Any", 0, FALSE, FALSE)),
                 "Is", TypeGet("C")),
          Literal("Bool")}

\* The lowered conditions of up to d operators on top of each other.
RECURSIVE Conditions(_)
Conditions(d) ==
    IF d = 0 THEN CondAtoms
    ELSE LET inner == Conditions(d - 1)
         IN CondAtoms
            \cup {Binary(l, op, r) : l \in inner, r \in inner, op \in {"And", "Or"}}
            \cup {Unary(c, "Bang") : c \in inner}

\* Mutation: find_casts descends through `or` as well.
RECURSIVE FindCastsThroughOr(_, _)
FindCastsThroughOr(list, expr) ==
    IF expr.kind # "Binary" THEN list
    ELSE IF expr.op \in {"And", "Or"}
    THEN FindCastsThroughOr(FindCastsThroughOr(list, expr.left), expr.right)
    ELSE IF expr.op = "Is" /\ expr.left.kind = "VarGet"
    THEN Append(list,
                VarStore(Var(expr.left.var.name, AsType(expr.right.ty), FALSE),
                         Cast(expr.left, AsType(expr.right.ty)), TRUE))
    ELSE list

\* MIRGenerator::find_casts(list, expr): the list after the call; the
\* variable of each store is the one define_variable has made.
RECURSIVE FindCastsAll(_, _)
FindCastsAll(list, expr) ==
    IF expr.kind # "Binary" THEN list
    ELSE IF expr.op = "And"
    THEN FindCastsAll(FindCastsAll(list, expr.left), expr.right)
    ELSE IF expr.op = "Is" /\ expr.left.kind = "VarGet"
    THEN Append(list,
                VarStore(Var(expr.left.var.name, AsType(expr.right.ty), FALSE),
                         Cast(expr.left, AsType(expr.right.ty)), TRUE))
    ELSE list

\* MIRGenerator::define_variable for the variables of the stores, in order
RECURSIVE DefineAll(_, _)
DefineAll(envs, stores) ==
    IF stores = << >> THEN envs
    ELSE DefineAll(DefineVariable(envs, Head(stores).var), Tail(stores))

\* No branch is lowered.
CastIdle ==
    /\ castIn = [cond |-> NoRet, branch |-> "a"]
    /\ castOut = [lowered |-> FALSE]

\* if_ or when has lowered the condition of a branch whose expression is
\* a variable read.
CastInit ==
    /\ castIn \in [cond : Conditions(MaxCondDepth), branch : {"a", "b"}]
    /\ castOut = [lowered |-> FALSE]

\* MIRGenerator::if_ and when, from begin_scope to end_scope: smart_casts,
\* then the branch's expression is lowered and pushed on the block.
LowerBranch ==
    /\ ~castOut.lowered
    /\ LET casts == FindCastsAll(<< >>, castIn.cond)
           scopes == DefineAll(BeginScope(CastScopes), casts)
           branch == VarGet(FindInScopes(scopes, castIn.branch))
       IN castOut' = [lowered |-> TRUE,
                      scopes |-> scopes,
                      exprs |-> Append(casts, branch),
                      block |-> Block(casts, branch),
                      after |-> EndScope(scopes)]
    /\ UNCHANGED <<castIn, visVars, parseVars, genVars, callVars, declVars,
                   tableVars, fillVars, irVars>>

(***************************************************************************)
(* FillClassPass (src/mir/generator/passes/fill_class.rs)                  *)
(***************************************************************************)
MaxFields == 3

FillFieldNames == {"x", "y", "m"}
FillMethodNames == {"m", "n"}
\* the type of a field's initializer, or that generate_expression fails on
\* it
InitializerTypes == {"I32"}
ErrInitializer == "initializer error"

ErrMemberTwice == "Class member cannot be defined twice"
ErrMemberAndMethod == "Cannot have class member and method with same name."

\* ast::Variable of a class: name, is_val, initializer
Field(name, is_val, initializer) ==
    [name |-> name, is_val |-> is_val, initializer |-> initializer]
Fields ==
    {Field(n, v, i) : n \in FillFieldNames, v \in BOOLEAN,
                      i \in InitializerTypes \cup {ErrInitializer}}

\* MIRClassMember { mutable, _type, index }
MIRClassMember(mutable, type, index) ==
    [mutable |-> mutable, type |-> type, index |-> index]

NoMembers == [n \in {} |-> MIRClassMember(FALSE, NoType, 0)]

\* The state of build_class_init: the `fields` map, `fields_vec`, the
\* stores inserted into the init function, and the error returned.
Built(fields, fields_vec, stores, err) ==
    [fields |-> fields, fields_vec |-> fields_vec, stores |-> stores,
     err |-> err]

\* FillClassPass::build_class_init: the fields from the i-th on (i counts
\* from 0 as enumerate does), with `offset` the length of the map at entry
RECURSIVE BuildClassInit(_, _, _, _)
BuildClassInit(variables, i, offset, b) ==
    IF i >= Len(variables) THEN b
    ELSE LET field == variables[i + 1]
             member == MIRClassMember(~field.is_val, field.initializer,
                                      i + offset)
             existing_entry == field.name \in DOMAIN b.fields
             inserted ==
                 [b EXCEPT
                    !.fields = [n \in DOMAIN b.fields \cup {field.name} |->
                                   IF n = field.name THEN member
                                   ELSE b.fields[n]],
                    !.fields_vec = Append(@, member)]
         IN IF field.initializer = ErrInitializer
            THEN [b EXCEPT !.err = ErrInitializer]
            ELSE IF existing_entry
            THEN [inserted EXCEPT !.err = ErrMemberTwice]
            ELSE BuildClassInit(variables, i + 1, offset,
                                [inserted EXCEPT
                                   !.stores = Append(@, [field |-> field.name,
                                                         index |-> member.index])])

\* Mutation: members and methods are never compared.
CheckDuplicateNever(members, methods) == None

\* FillClassPass::check_duplicate
CheckDuplicate(members, methods) ==
    IF \E mem_name \in DOMAIN members : mem_name \in methods
    THEN ErrMemberAndMethod
    ELSE None

\* FillClassPass::fill_class on the builder's class `def`: the class
\* after the call, the stores inserted, and the error returned
FillClass(variables, def) ==
    LET built == BuildClassInit(variables, 0, 0,
                                Built(NoMembers, << >>, << >>, None))
        dup == CheckDuplicate(built.fields, def.methods)
    IN IF built.err # None
       THEN [err |-> built.err, def |-> def, stores |-> built.stores]
       ELSE IF dup # None
       THEN [err |-> dup, def |-> def, stores |-> built.stores]
       ELSE [err |-> None,
             def |-> [def EXCEPT !.members = built.fields,
                                 !.member_order = built.fields_vec],
             stores |-> built.stores]

\* No class is filled.
FillIdle ==
    /\ fillFields = << >>
    /\ astVariables = << >>
    /\ classDef = [methods |-> {}, members |-> NoMembers, member_order |-> << >>]
    /\ initStores = << >>
    /\ fillRes = [returned |-> FALSE]

\* A class the declare pass has created (without members), its methods
\* declared, and the fields of its AST.
FillInit ==
    /\ fillFields \in SeqsUpTo(Fields, MaxFields)
    /\ astVariables = fillFields
    /\ classDef \in [methods : SUBSET FillMethodNames, members : {NoMembers},
                      member_order : {<< >>}]
    /\ initStores = << >>
    /\ fillRes = [returned |-> FALSE]

\* FillClassPass::fill_class; class.variables.drain(..) leaves the AST
\* class without variables, whatever is returned.
FillClassCall ==
    /\ ~fillRes.returned
    /\ LET res == FillClass(astVariables, classDef)
       IN /\ classDef' = res.def
          /\ initStores' = res.stores
          /\ fillRes' = [returned |-> TRUE, err |-> res.err]
    /\ astVariables' = << >>
    /\ UNCHANGED <<fillFields, visVars, parseVars, genVars, callVars, declVars,
                   tableVars, castVars, irVars>>

(***************************************************************************)
(* IRGenerator (src/ir/expr.rs): calls, returns and blocks                 *)
(***************************************************************************)
MaxIRDepth == 2
MaxIRArgs == 2
MaxIRItems == 2

\* the functions called: f takes arguments and returns a value, g takes
\* none and returns nothing
IRFunctions == {"f", "g"}
IRReturnsValue(func) == func = "f"

\* ---- Expr, as far as expression() matches on it -----------------------
IRLiteral == [kind |-> "Literal"]
IRLocal(name) == [kind |-> "Variable", var |-> "Local", name |-> name]
IRFunction(func) == [kind |-> "Variable", var |-> "Function", name |-> func]
IRCall(callee, arguments) ==
    [kind |-> "Call", callee |-> callee, arguments |-> arguments]
IRReturn(value) == [kind |-> "Return", value |-> value]

RECURSIVE IRExprs(_)
RECURSIVE IRArguments(_, _)
IRExprs(d) ==
    IF d = 0 THEN {IRLiteral, IRLocal("x")}
    ELSE IRExprs(0)
         \cup UNION {{IRCall(IRFunction(f), args) :
                        args \in IRArguments(f, d - 1)} : f \in IRFunctions}
         \cup {IRReturn(v) : v \in IRExprs(d - 1)}

\* the argument lists f and g are called with
IRArguments(func, d) ==
    IF func = "f" THEN SeqsUpTo(IRExprs(d), MaxIRArgs) ELSE {<< >>}

\* ---- values -------------------------------------------------------------
\* IRGenerator.none_const
IRNoneConst == <<"none_const">>
\* a constant of the context; the same literal is the same value
IRConst == <<"const">>
\* the value an instruction built by the expression at `path` results in
IRValueOf(inst, path) == <<inst, path>>

\* ---- the generator --------------------------------------------------------
\* The generator calls `op` (of itself or of its builder) on v while it
\* generates the expression at `by`; `placed` is whether the builder has
\* an insertion position at that time.
IRDo(g, op, v, by) ==
    [g EXCEPT !.log = Append(@, [op |-> op, v |-> v, by |-> by,
                                 placed |-> g.insert_block])]

\* self.locals().push((v, false))
LocalsPush(g, v, by) ==
    LET pushed == IRDo(g, "locals_push", v, by)
    IN [pushed EXCEPT !.locals[Len(g.locals)] = Append(@, v)]

\* IRGenerator::push_local_scope
PushLocalScope(g) == [g EXCEPT !.locals = Append(@, << >>)]

\* IRGenerator::pop_locals_lift
PopLocalsLift(g, value, by) ==
    LET popped == IRDo(g, "pop_locals_lift", value, by)
    IN [popped EXCEPT !.locals = SubSeq(@, 1, Len(@) - 1)]

\* for arg in &arguments { self.<op>(*arg, false) }
RECURSIVE RefcountEach(_, _, _, _, _)
RefcountEach(g, op, arguments, i, by) ==
    IF i > Len(arguments) THEN g
    ELSE RefcountEach(IRDo(g, op, arguments[i], by), op, arguments, i + 1, by)

\* The generator after an expression, and the expression's value.
IRResult(g, value) == [g |-> g, value |-> value]

\* Mutation: expression() goes on without an insertion position.
InsertBlockIsNoneNever(g) == FALSE

\* self.builder.get_insert_block().is_none()
InsertBlockIsNone(g) == ~g.insert_block

RECURSIVE Expression(_, _, _)
RECURSIVE ExpressionEach(_, _, _, _, _)

\* IRGenerator::build_call for the Call at `path`
BuildCall(g, ptr, arguments, path) ==
    LET args == ExpressionEach(g, arguments, path, 1, << >>)
        incremented ==
            RefcountEach(args.g, "increment_refcount", args.value, 1, path)
        called == IRDo(incremented, "build_call", args.value, path)
        result == IF IRReturnsValue(ptr) THEN IRValueOf("call", path)
                  ELSE IRNoneConst
        pushed == LocalsPush(called, result, path)
    IN IRResult(RefcountEach(pushed, "decrement_refcount", args.value, 1, path),
                result)

\* arguments.map(|a| self.expression(a)).collect(): the i-th argument on
ExpressionEach(g, arguments, path, i, values) ==
    IF i > Len(arguments) THEN IRResult(g, values)
    ELSE LET res == Expression(g, arguments[i], Append(path, i))
         IN ExpressionEach(res.g, arguments, path, i + 1,
                           Append(values, res.value))

\* Expr::Return in expression()
IRReturnOf(g, expr, path) ==
    LET res == Expression(g, expr.value, Append(path, 1))
        incremented == IRDo(res.g, "increment_refcount", res.value, path)
        decremented == IRDo(incremented, "decrement_all_locals", IRNoneConst,
                            path)
        returned == IRDo(decremented, "build_return", res.value, path)
    IN IRResult([returned EXCEPT !.insert_block = FALSE], IRNoneConst)

\* IRGenerator::expression for the expression at `path`
Expression(g, expr, path) ==
    IF InsertBlockIsNone(g) THEN IRResult(g, IRNoneConst)
    ELSE CASE expr.kind = "Literal" -> IRResult(g, IRConst)
           [] expr.kind = "Variable" /\ expr.var = "Local" ->
                IRResult(IRDo(g, "load_ptr_mir", expr.name, path),
                         IRValueOf("load", path))
           [] expr.kind = "Variable" /\ expr.var = "Function" ->
                IRResult(g, expr.name)
           [] expr.kind = "Call" ->
                BuildCall(Expression(g, expr.callee, path).g,
                          Expression(g, expr.callee, path).value,
                          expr.arguments, path)
           [] expr.kind = "Return" -> IRReturnOf(g, expr, path)

\* ---- Expr::Block in expression(): one expression of the block at a time --
IRGenerating == irPc \in 1..Len(irBody)

\* push_local_scope, with an insertion position
IRBlockBegin ==
    /\ irPc = 0
    /\ ~InsertBlockIsNone(irGen)
    /\ irGen' = PushLocalScope(irGen)
    /\ irPc' = 1
    /\ UNCHANGED <<irBody, irValue, visVars, parseVars, genVars, callVars,
                   declVars, tableVars, castVars, fillVars>>

\* the fold's next self.expression(ex)
IRBlockItem ==
    /\ IRGenerating
    /\ LET res == Expression(irGen, irBody[irPc], <<irPc>>)
       IN /\ irGen' = res.g
          /\ irValue' = res.value
    /\ irPc' = irPc + 1
    /\ UNCHANGED <<irBody, visVars, parseVars, genVars, callVars, declVars,
                   tableVars, castVars, fillVars>>

\* pop_locals_lift(ret)
IRBlockEnd ==
    /\ irPc = Len(irBody) + 1
    /\ irGen' = PopLocalsLift(irGen, irValue, << >>)
    /\ irPc' = irPc + 1
    /\ UNCHANGED <<irBody, irValue, visVars, parseVars, genVars, callVars,
                   declVars, tableVars, castVars, fillVars>>

IRNext ==
    \/ IRBlockBegin
    \/ IRBlockItem
    \/ IRBlockEnd

\* No IR is generated.
IRIdle ==
    /\ irBody = << >>
    /\ irPc = 0
    /\ irGen = [insert_block |-> FALSE, locals |-> << >>, log |-> << >>]
    /\ irValue = IRNoneConst

\* expression() is called on a block, the builder positioned in a function
\* whose locals are those of its own scope.
IRInit ==
    /\ irBody \in SeqsUpTo(IRExprs(MaxIRDepth), MaxIRItems)
    /\ irPc = 0
    /\ irGen = [insert_block |-> TRUE, locals |-> << << >> >>, log |-> << >>]
    /\ irValue = IRNoneConst

(***************************************************************************)
(* DeclarePass: the classes and functions of a module are declared.        *)
(***************************************************************************)
MaxClasses == 2
MaxMethods == 2
MaxFunctions == 2

DeclClassNames == {"A", "B"}
DeclMethodNames == {"m", "n"}
\* a function may have the name of a class
DeclFunctionNames == {"f", "A"}
\* the return type of a declared function: none, or class A
DeclReturnTypes == {"None", "A"}

ErrClassDefined == "Class was already defined!"
ErrDeclaredTwice == "Function was declared twice"
ErrUnknownReturnType == "Unknown function return type"
ErrUnknownParameterType == "Function parameter has unknown type"

\* FuncSignature { name, return_type, parameters }; return_type "None" is
\* a signature without one, parameters are the types of the parameters.
FuncSignature(name, return_type, parameters) ==
    [name |-> name, return_type |-> return_type, parameters |-> parameters]
\* Class { name, methods }
Class(name, methods) == [name |-> name, methods |-> methods]

FuncSignatures ==
    {FuncSignature(n, r, << >>) : n \in DeclFunctionNames, r \in DeclReturnTypes}
Classes ==
    {Class(n, [i \in 1..Len(ms) |-> FuncSignature(ms[i], "None", << >>)]) :
        n \in DeclClassNames, ms \in SeqsUpTo(DeclMethodNames, MaxMethods)}

\* DeclarationList { classes, ext_functions, functions }
DeclarationLists ==
    [classes : SeqsUpTo(Classes, MaxClasses),
     ext_functions : SeqsUpTo({FuncSignature("f", "None", << >>)}, 1),
     functions : SeqsUpTo(FuncSignatures, MaxFunctions)]
EmptyList == [classes |-> << >>, ext_functions |-> << >>, functions |-> << >>]

\* DeclarePass::run: what it creates, in its order: the classes, the
\* external functions, the functions, then the methods class by class.
RECURSIVE MethodsOf(_, _)
MethodsOf(classes, c) ==
    IF c > Len(classes) THEN << >>
    ELSE [k \in 1..Len(classes[c].methods) |->
             [op |-> "method", class |-> c, method |-> k]]
         \o MethodsOf(classes, c + 1)
Work(list) ==
    [c \in 1..Len(list.classes) |-> [op |-> "class", class |-> c]]
    \o [i \in 1..Len(list.ext_functions) |->
           [op |-> "function", sig |-> list.ext_functions[i]]]
    \o [i \in 1..Len(list.functions) |->
           [op |-> "function", sig |-> list.functions[i]]]
    \o MethodsOf(list.classes, 1)

\* ---- MIRBuilder -----------------------------------------------------------
\* The module's symbol table holds the name.
NameDeclared(ss, fs, name) ==
    name \in ss \/ \E i \in 1..Len(fs) : fs[i].name = name

\* MIRBuilder::find_type: the primitive types and the declared classes
BuilderFindType(ss, name) == name \in {"None", "I32"} \cup ss

\* MIRBuilder::create_struct and create_function return None for a name
\* the symbol table holds.
BuilderCreates(ss, fs, name) == ~NameDeclared(ss, fs, name)

\* ---- DeclarePass ----------------------------------------------------------
\* A pass on builder state ss (classes), fs (functions) and the
\* generator's scopes envs, without an error so far.
DeclState(ss, fs, envs) ==
    [err |-> None, structs |-> ss, functions |-> fs, envs |-> envs]

\* Mutation: the function is created whatever the builder returns.
FunctionCreatedAlways(ss, fs, name) == TRUE

\* DeclarePass::create_function: builder.create_function returned Some.
FunctionCreated(ss, fs, name) == BuilderCreates(ss, fs, name)

\* DeclarePass::create_function
CreateFunction(d, sig) ==
    IF ~BuilderFindType(d.structs, sig.return_type)
    THEN [d EXCEPT !.err = ErrUnknownReturnType]
    ELSE IF \E p \in 1..Len(sig.parameters) :
               ~BuilderFindType(d.structs, sig.parameters[p])
    THEN [d EXCEPT !.err = ErrUnknownParameterType]
    ELSE IF ~FunctionCreated(d.structs, d.functions, sig.name)
    THEN [d EXCEPT !.err = ErrDeclaredTwice]
    ELSE [d EXCEPT
            !.functions = Append(@, sig),
            !.envs[1] = ScopeInsert(@, Var(sig.name, "fn " \o sig.name,
                                           FALSE))]

\* DeclarePass::create_class
CreateClass(d, class) ==
    IF ~BuilderCreates(d.structs, d.functions, class.name)
    THEN [d EXCEPT !.err = ErrClassDefined]
    ELSE CreateFunction([d EXCEPT !.structs = @ \cup {class.name}],
                        FuncSignature(class.name \o "-internal-init",
                                      "None", <<class.name>>))

\* DeclarePass::functions: the name a method is declared under
MethodName(class, method) == class.name \o "-" \o method.name

\* The pass as it stands, and what it does next.
Declared == DeclState(structs, functions, environments)
DeclRunning == declPc \in 1..Len(Work(declList)) /\ declErr = None
Item == Work(declList)[declPc]

\* The pass goes on with outcome d of a create_* call, or returns its error.
DeclApply(d) ==
    /\ structs' = d.structs
    /\ functions' = d.functions
    /\ environments' = d.envs
    /\ declErr' = d.err
    /\ declPc' = declPc + 1
    /\ UNCHANGED <<modPath, declVis, classFields, unitKind, ctorIdx, unitsRun,
                   uninit, frames, ret, exprCount, immStores, genErr,
                   currentLoop, limits, visVars, parseVars, callVars, lateVars>>

\* DeclarePass::classes: one class
DeclareClass ==
    /\ DeclRunning
    /\ Item.op = "class"
    /\ DeclApply(CreateClass(Declared, declList.classes[Item.class]))
    /\ UNCHANGED declList

\* DeclarePass::functions: one external function or function
DeclareFunction ==
    /\ DeclRunning
    /\ Item.op = "function"
    /\ DeclApply(CreateFunction(Declared, Item.sig))
    /\ UNCHANGED declList

\* DeclarePass::functions: one method; its signature gets the name it is
\* declared under.
DeclareMethod ==
    /\ DeclRunning
    /\ Item.op = "method"
    /\ LET class == declList.classes[Item.class]
           sig == [class.methods[Item.method] EXCEPT
                     !.name = MethodName(class, class.methods[Item.method])]
       IN /\ declList' = [declList EXCEPT
                            !.classes[Item.class].methods[Item.method] = sig]
          /\ DeclApply(CreateFunction(Declared, sig))

DeclNext ==
    \/ DeclareClass
    \/ DeclareFunction
    \/ DeclareMethod

\* No declare pass is run.
DeclIdle ==
    /\ declList = EmptyList
    /\ declPc = 0
    /\ structs = {}
    /\ functions = << >>
    /\ declErr = None

\* DeclarePass::new on a generator with its global scope, and the list
\* run is called with.
DeclInit ==
    /\ declList \in DeclarationLists
    /\ declPc = 1
    /\ structs = {}
    /\ functions = << >>
    /\ declErr = None
    /\ modPath = <<"app">>
    /\ declVis = AllPublic
    /\ classFields = PlainClass
    /\ unitKind = "off"
    /\ ctorIdx = 0
    /\ unitsRun = 0
    /\ environments = <<EmptyScope>>
    /\ uninit = {}
    /\ frames = << >>
    /\ ret = NoRet
    /\ exprCount = 0
    /\ immStores = NoStores
    /\ genErr = None
    /\ currentLoop = NoLoop
    /\ limits = GenLimits


(***************************************************************************)
(* Function::insert_var (crates/gir-nodes/src/declaration.rs) and          *)
(* MIRFunction::insert_var (src/mir/nodes.rs): the variable table.         *)
(***************************************************************************)
MaxInserts == 4

\* the names insert_var is called with
VarNames == {"a", "b", "a-1", "a-2"}

EmptyTable == [n \in {} |-> 0]

\* format!("{}-{}", name, self.variables.len())
Disambiguated(table, name) ==
    name \o "-" \o ToString(Cardinality(DOMAIN table))

\* Function::insert_var: the name the variable is inserted under
InsertedName(table, name) ==
    IF name \in DOMAIN table THEN Disambiguated(table, name) ELSE name

\* Function::insert_var: the table after the call (HashMap::insert replaces
\* the entry of a key the map holds)
InsertVar(table, name, var) ==
    [n \in DOMAIN table \cup {InsertedName(table, name)} |->
        IF n = InsertedName(table, name) THEN var ELSE table[n]]

\* No variable table is filled.
TableIdle ==
    /\ fnVariables = EmptyTable
    /\ insertLog = << >>

\* A function without variables.
TableInit ==
    /\ fnVariables = EmptyTable
    /\ insertLog = << >>

\* insert_var(name, var); the variables are told apart by their number.
InsertVarCall ==
    /\ Len(insertLog) < MaxInserts
    /\ \E name \in VarNames :
          /\ fnVariables' = InsertVar(fnVariables, name, Len(insertLog) + 1)
          /\ insertLog' = Append(insertLog,
                                 [name |-> name,
                                  returned |-> InsertedName(fnVariables, name)])
    /\ UNCHANGED <<visVars, parseVars, genVars, callVars, declVars, castVars,
                   fillVars, irVars>>

LateIdle == TableIdle /\ CastIdle /\ FillIdle /\ IRIdle

\* The generator runs; nothing is parsed and no visibility is evaluated.
InitGen == GenInit /\ VisIdle /\ ParseIdle /\ CallIdle /\ DeclIdle /\ LateIdle

SpecGen == InitGen /\ [][GenNext]_vars

\* The parser runs on its own.
InitParse == ParseInit /\ VisIdle /\ GenIdle /\ CallIdle /\ DeclIdle /\ LateIdle

SpecParse == InitParse /\ [][ParseNext]_vars

\* The generator lowers functions that hold loops.
InitLoop == LoopInit /\ VisIdle /\ ParseIdle /\ CallIdle /\ DeclIdle /\ LateIdle

SpecLoop == InitLoop /\ [][LoopNext]_vars

\* The declare pass runs on its own.
InitDecl == DeclInit /\ VisIdle /\ ParseIdle /\ CallIdle /\ LateIdle

SpecDeclare == InitDecl /\ [][DeclNext]_vars

\* Calls and operators are lowered on their own.
InitCall == CallInit /\ VisIdle /\ ParseIdle /\ GenIdle /\ DeclIdle /\ LateIdle

SpecCall == InitCall /\ [][CallNext]_vars

\* Visibility::from is evaluated on its own.
InitVis == VisInit /\ ParseIdle /\ GenIdle /\ CallIdle /\ DeclIdle /\ LateIdle

SpecVis == InitVis /\ [][VisibleFrom]_vars

\* The generator lowers functions that hold `when` expressions.
InitWhen == WhenInit /\ VisIdle /\ ParseIdle /\ CallIdle /\ DeclIdle /\ LateIdle

SpecWhen == InitWhen /\ [][WhenNext]_vars

\* A variable table is filled on its own.
InitInsert ==
    TableInit /\ VisIdle /\ ParseIdle /\ GenIdle /\ CallIdle /\ DeclIdle
        /\ CastIdle /\ FillIdle /\ IRIdle

\* The branch of an `if` or `when` is lowered on its own.
InitCast ==
    CastInit /\ VisIdle /\ ParseIdle /\ GenIdle /\ CallIdle /\ DeclIdle
        /\ TableIdle /\ FillIdle /\ IRIdle

SpecCast == InitCast /\ [][LowerBranch]_vars

\* The fill-class pass runs on one class.
InitFill ==
    FillInit /\ VisIdle /\ ParseIdle /\ GenIdle /\ CallIdle /\ DeclIdle
        /\ TableIdle /\ CastIdle /\ IRIdle

SpecFill == InitFill /\ [][FillClassCall]_vars

\* The IR of one block is generated.
InitIR ==
    IRInit /\ VisIdle /\ ParseIdle /\ GenIdle /\ CallIdle /\ DeclIdle
        /\ TableIdle /\ CastIdle /\ FillIdle

SpecIR == InitIR /\ [][IRNext]_vars

SpecInsert == InitInsert /\ [][InsertVarCall]_vars

(***************************************************************************)
(* Properties                                                              *)
(***************************************************************************)

\* C1: when generate_constructors has lowered a constructor without an
\* error, uninitialized_this_members is empty; a constructor that leaves a
\* member in the set ends with "Cannot have uninitialized fields after
\* constructor." instead.
C1_ConstructorLeavesNoneUninitialized ==
    /\ (unitKind = "ctors" /\ ctorIdx > 0) => uninit = {}
    /\ (genErr = ErrUninitAfterCtor) => uninit # {}

\* A constructor that had to store member y did so and was accepted.
C1_Witness ==
    /\ unitKind = "ctors"
    /\ ctorIdx > 0
    /\ immStores[<<"C", "y">>] = 1

\* C2: a store of a value of the member's type to an immutable member is
\* accepted exactly when the member is in uninitialized_this_members; an
\* accepted store to a member of the set takes it out of the set and has
\* first_store = true; no immutable member is stored twice in one function.
C2_ImmutableMemberStoredOnce ==
    /\ [][(Resumed("set") /\ ret.ty = Top.member.ty) =>
            /\ ~Top.member.mutable =>
                  (ret'.kind = "StructSet" <=> Top.member.name \in uninit)
            /\ Top.member.name \in uninit =>
                  /\ ret'.kind = "StructSet"
                  /\ ret'.first_store
                  /\ Top.member.name \notin uninit']_vars
    /\ [](\A k \in ImmutableKeys : immStores[k] <= 1)

\* A constructor has stored the immutable member x that was in the set.
C2_Witness ==
    /\ unitKind = "ctor"
    /\ ret.kind = "StructSet"
    /\ ret.field = "x"
    /\ ~ret.mutable
    /\ ret.first_store
    /\ "x" \notin uninit
    /\ immStores[<<"C", "x">>] = 1

\* Expr::Call of a method
IsMethodCall(e) == e.kind = "Call" /\ e.callee.ty \in MethodTypes

\* uninitialized_this_members of the generator that lowers the constructor
\* (the generator of a closure in its body has a set of its own).
ConstructorUninit ==
    IF InClosure THEN OutermostClosure.outerUninit ELSE uninit

\* The object of the call is a variable that holds `this`.
OnThis(e) == e.args[1].kind = "VarGet" /\ e.args[1].var.self

\* C3: while a constructor body is lowered, no call of a method on `this`
\* is built before every member of the class has been stored.
C3_NoMethodCallBeforeInitialized ==
    (unitKind = "ctor" /\ IsMethodCall(ret) /\ OnThis(ret)) =>
        ConstructorUninit = {}

\* The members set_uninitialized_members must leave in the set for a
\* constructor with these parameters: no default value, and no parameter
\* without a type of the member's name.
ExpectedUninitialized(typedOf) ==
    {f \in FieldNames :
        /\ ~classFields[f].has_default_value
        /\ ~(f \in DOMAIN typedOf /\ ~typedOf[f])}

\* C4: at the entry to a constructor uninitialized_this_members is exactly
\* the set of members without a default value that no parameter binds;
\* what an earlier constructor left in the set is gone.
C4_UninitializedAtEntry ==
    [][(unitKind = "ctors" /\ unitKind' = "ctor") =>
          uninit' = ExpectedUninitialized(frames'[1].params)]_vars

\* A constructor was entered whose parameter x has a type: x is in the set.
C4_Witness ==
    /\ unitKind = "ctor"
    /\ "x" \in DOMAIN frames[1].params
    /\ frames[1].params["x"]
    /\ "x" \in ConstructorUninit

\* C5: an assignment builds a store exactly when the variable is mutable
\* and the value has the variable's type, and is an error otherwise; no
\* store to a function variable is ever built.
C5_AssignmentAccepted ==
    /\ [][Resumed("assign") =>
            IF Top.var.mutable /\ TypeEq(ret.ty, Top.var.ty)
            THEN /\ ret'.kind = "VarStore"
                 /\ ~ret'.first_store
                 /\ ret'.var = Top.var
                 /\ genErr' = genErr
            ELSE /\ ret' = NoRet
                 /\ frames' = << >>
                 /\ genErr' \in {ErrAssignDifferentType,
                                 ErrAssignNotAssignable}]_vars
    /\ [](ret.kind = "VarStore" => ret.var.ty \notin FunctionTypes)

\* An assignment to a mutable variable was accepted.
C5_Witness ==
    /\ ret.kind = "VarStore"
    /\ ~ret.first_store
    /\ ret.var.mutable

\* C6: an If has a phi_type exactly when both branches have the same type
\* and that type is not None; the phi_type is then that type and the type
\* of the If, and an If without a phi_type has type None.
C6_IfPhiType ==
    ret.kind = "If" =>
        /\ ret.phi_type # NoType <=>
              /\ TypeEq(ret.thenTy, ret.elseTy)
              /\ ~(TypeEq(ret.thenTy, "None") /\ TypeEq(ret.elseTy, "None"))
        /\ ret.phi_type # NoType =>
              (ret.phi_type = ret.thenTy /\ ret.ty = ret.thenTy)
        /\ ret.phi_type = NoType => ret.ty = "None"

\* An If with two branches of type I32 was built.
C6_Witness ==
    /\ ret.kind = "If"
    /\ ret.phi_type = "I32"
    /\ ret.elseTy = "I32"

LookupNames == {"this", "a", "g", "P", "closure-literal"}

\* C7: once if_ has lowered the then-branch, every name resolves as it did
\* before the if: the variable a smart cast defined is gone.
C7_SmartCastScope ==
    [][(Resumed("if") /\ Top.stage = "then") =>
          \A n \in LookupNames :
              FindVar(environments', n) = FindVar(Top.before, n)]_vars

\* The else branch is about to be lowered after a smart cast has given `a`
\* another type in the then-branch.
C7_Witness ==
    /\ frames # << >>
    /\ Top.kind = "if"
    /\ Top.stage = "else"
    /\ FindCasts(Top.cond) # NoVar
    /\ FindVar(environments, "a") # NoVar
    /\ FindVar(environments, "a").ty # FindCasts(Top.cond).ty

\* C8: parsing is lossless: the green tree built from the parser's events
\* prints back the source text, every lexeme once and in source order.
C8_Lossless == pstate = "done" => tree = lexemes

\* The declaration of a function or class type, and the declarations an
\* expression refers to: the function a variable load or call names, the
\* type of a type get, the class of the member a get or set names.
DeclOfType(ty) ==
    CASE ty = "fn f" -> {"f"}
      [] ty = "fn g" -> {"g"}
      [] ty = "fn C.m" -> {"C"}
      [] ty \in ClassTypes -> {ty}
      [] OTHER -> {}

RECURSIVE Refs(_)
Refs(e) ==
    CASE e.kind = "VarGet" ->
            IF e.ty \in FunctionTypes \cup MethodTypes THEN DeclOfType(e.ty)
            ELSE {}
      [] e.kind = "TypeGet" -> DeclOfType(e.of)
      [] e.kind = "Call" -> Refs(e.callee)
      [] e.kind \in {"StructGet", "StructSet"} -> {e.owner}
      [] e.kind = "Binary" -> Refs(e.left) \cup Refs(e.right)
      [] OTHER -> {}

\* C9: no expression built for a function of module m refers to a
\* declaration that is not visible from m, and a name that resolves to such
\* a declaration is reported as a visibility error (not as an undefined
\* variable).
C9_VisibilityInvariant ==
    /\ \A d \in Refs(ret) : Visible(d, modPath)
    /\ \A d \in OtherDecls :
          ~Visible(d, modPath) => genErr # ErrNotDefined(d)

\* C10: Private is visible exactly from the declaring module, Module
\* exactly from the modules whose first path part is that of the declaring
\* module, Public from everywhere; so Private implies Module implies Public.
C10_VisibilityFrom ==
    visRes.evaluated =>
        /\ visRes.Private <=> visFrom = visOwn
        /\ visRes.Module <=> visFrom[1] = visOwn[1]
        /\ visRes.Public
        /\ visRes.Private => visRes.Module
        /\ visRes.Module => visRes.Public

\* A module that sees Module declarations of another module, not Private.
C10_Witness ==
    /\ visRes.evaluated
    /\ visRes.Module
    /\ ~visRes.Private
    /\ visFrom # visOwn

ScopesWith(envs, n) == {i \in 1..Len(envs) : n \in DOMAIN envs[i]}

\* The innermost binding of n in a stack of scopes that has one.
InnermostBinding(envs, n) ==
    envs[CHOOSE i \in ScopesWith(envs, n) :
            \A j \in ScopesWith(envs, n) : j <= i][n]

\* Where the resolution order of a name ends: the scopes of the current
\* function, those of the function around the closure, the module's
\* globals, the types, or nowhere.
ResolvedIn(n) ==
    CASE ScopesWith(environments, n) # {} -> "scope"
      [] ScopesWith(environments, n) = {} /\ InClosure
            /\ ScopesWith(InnermostClosure.outerEnv, n) # {} -> "outer"
      [] OTHER -> IF FindGlobal(n) # NoVar THEN "global"
                  ELSE IF FindType(n) # NoType THEN "type"
                  ELSE "none"

ResolvedVar(n) ==
    CASE ResolvedIn(n) = "scope" -> InnermostBinding(environments, n)
      [] ResolvedIn(n) = "outer" ->
            InnermostBinding(InnermostClosure.outerEnv, n)
      [] ResolvedIn(n) = "global" -> FindGlobal(n)
      [] OTHER -> NoVar

\* C15: a name resolves to its innermost binding in the scopes of the
\* current function, else (in a closure) to its innermost binding in the
\* scopes of the enclosing function, else to a global, else to a type
\* (TypeGet), else it is the error "Variable ... is not defined"; a capture
\* is recorded exactly when the binding is one of the enclosing function.
C15_ResolutionOrder ==
    [][Awaiting =>
          /\ \A n \in LookupNames :
                (ret'.kind = "VarGet" /\ ret'.var.name = n) =>
                    /\ ret'.var = ResolvedVar(n)
                    /\ InClosure =>
                          InnermostClosure'.captured =
                              InnermostClosure.captured \o
                                 (IF ResolvedIn(n) = "outer"
                                  THEN <<ResolvedVar(n)>> ELSE << >>)
          /\ ret'.kind = "TypeGet" => ResolvedIn(ret'.of) = "type"
          /\ \A n \in LookupNames :
                (genErr' = ErrNotDefined(n) /\ frames' = << >>) =>
                    ResolvedIn(n) \in {"type", "none"}]_vars

\* A name bound in two scopes of the function was resolved to the inner
\* binding.
C15_Witness ==
    /\ ret.kind = "VarGet"
    /\ Len(environments) \in ScopesWith(environments, ret.var.name)
    /\ \E i \in ScopesWith(environments, ret.var.name) :
          /\ i < Len(environments)
          /\ environments[i][ret.var.name] # ret.var
    /\ ret.var = environments[Len(environments)][ret.var.name]

\* The variables an expression loads.
RECURSIVE VarsOf(_)
VarsOf(e) ==
    CASE e.kind = "VarGet" -> {e.var}
      [] e.kind = "Call" -> VarsOf(e.callee)
      [] e.kind = "Binary" -> VarsOf(e.left) \cup VarsOf(e.right)
      [] OTHER -> {}

\* C16: the captured list of the closure construction built for a closure
\* literal is the list in the ClosureCaptured type of the first parameter of
\* the closure's function, and every variable the body loaded from the
\* scopes of the enclosing function is in it.
C16_CapturedMatchesParameter ==
    [][Resumed("closure") =>
          LET c == ret'.value
          IN /\ c.kind = "ConstructClosure"
             /\ c.thisParam.type = "ClosureCaptured"
             /\ c.thisParam.captured = c.captured
             /\ \A v \in VarsOf(ret) :
                   (/\ ScopesWith(environments, v.name) = {}
                    /\ ScopesWith(Top.outerEnv, v.name) # {}) =>
                       \E k \in 1..Len(c.captured) : c.captured[k] = v]_vars

\* A closure whose body loaded a variable of the enclosing function was
\* built.
C16_Witness ==
    /\ ret.kind = "VarStore"
    /\ ret.value.kind = "ConstructClosure"
    /\ ret.value.captured # << >>
    /\ ret.value.thisParam.captured = ret.value.captured

\* The interfaces the table holds for a type.
Implemented(ty) ==
    {GetIfaceImpls(ty)[i].iface : i \in 1..Len(GetIfaceImpls(ty))}

\* An argument as the call passes it on: itself when it has the type of the
\* parameter, else cast to the parameter's type, an interface its type
\* implements.
PassedAs(arg, passed, paramTy) ==
    \/ passed = arg /\ arg.ty = paramTy
    \/ /\ passed = Cast(arg, paramTy)
       /\ arg.ty # paramTy
       /\ paramTy \in Implemented(arg.ty)

\* The number of arguments of the last call is one its callee takes.
CountFits ==
    \/ Len(callRes.args) = Len(callRes.parameters)
    \/ /\ Len(callRes.args) > Len(callRes.parameters)
       /\ callRes.callee = "function"
       /\ callRes.variadic

\* C12: every argument of an accepted call that has a declared parameter
\* has the parameter's type, or is cast to the parameter's type, an
\* interface the argument's type implements in the interface table; a call
\* with an argument that is neither fails with "Call argument is the wrong
\* type".
C12_CallArgumentsTyped ==
    callRes.op = "call" =>
        /\ callRes.res.err = None =>
              \A i \in 1..Len(callRes.parameters) :
                  PassedAs(callRes.args[i], callRes.res.expr.args[i],
                           callRes.parameters[i])
        /\ (callRes.res.err = ErrArgType) <=>
              /\ CountFits
              /\ \E i \in 1..Len(callRes.parameters) :
                    /\ callRes.args[i].ty # callRes.parameters[i]
                    /\ callRes.parameters[i] \notin
                          Implemented(callRes.args[i].ty)

\* A call was accepted with one argument of the parameter's type and one
\* cast to the interface of its parameter.
C12_Witness ==
    /\ callRes.op = "call"
    /\ callRes.res.err = None
    /\ \E i, j \in 1..Len(callRes.parameters) :
          /\ callRes.res.expr.args[i].kind = "Cast"
          /\ callRes.res.expr.args[j] = callRes.args[j]

\* C13: a call is accepted only with as many arguments (the receiver
\* counted) as the callee has parameters, or with more when the callee is a
\* function declared variadic; fewer arguments, and more for a closure, a
\* method or a function not declared variadic, are an error; the surplus
\* arguments of a variadic call are passed in their order after the checked
\* ones.
C13_ArgumentCount ==
    callRes.op = "call" =>
        /\ callRes.res.err = None => CountFits
        /\ ~CountFits => callRes.res.err = ErrArgCount
        /\ callRes.res.err = None =>
              /\ Len(callRes.res.expr.args) = Len(callRes.args)
              /\ \A i \in 1..Len(callRes.args) :
                    i > Len(callRes.parameters) =>
                        callRes.res.expr.args[i] = callRes.args[i]

\* A variadic function was called with two arguments more than it has
\* parameters.
C13_Witness ==
    /\ callRes.op = "call"
    /\ callRes.res.err = None
    /\ callRes.variadic
    /\ Len(callRes.args) > Len(callRes.parameters) + 1
    /\ Len(callRes.parameters) > 0

\* C14: the constructor of an Allocate is one of the constructors of the
\* type, has one parameter more than there are arguments, and its
\* parameters after the receiver have the types of the arguments; it is the
\* first such constructor in declaration order; when there is none the
\* call fails with "No matching constructor found for arguments."
C14_ConstructorChosen ==
    callRes.op = "new" =>
        LET cs == callRes.constructors
            args == callRes.args
            Fits(c) == /\ Len(c.parameters) = Len(args) + 1
                       /\ \A i \in 1..Len(args) :
                             args[i].ty = c.parameters[i + 1]
        IN /\ callRes.res.err = None =>
                 /\ callRes.res.expr.kind = "Allocate"
                 /\ callRes.res.expr.args = args
                 /\ \E i \in 1..Len(cs) :
                       /\ cs[i] = callRes.res.expr.constructor
                       /\ Fits(cs[i])
                       /\ \A j \in 1..(i - 1) : ~Fits(cs[j])
           /\ (callRes.res.err = ErrNoConstructor) <=>
                 \A i \in 1..Len(cs) : ~Fits(cs[i])

\* The second constructor of the class was chosen for two arguments.
C14_Witness ==
    /\ callRes.op = "new"
    /\ callRes.res.err = None
    /\ Len(callRes.args) = 2
    /\ Len(callRes.constructors) = 2
    /\ callRes.res.expr.constructor = callRes.constructors[2]

\* C17: an operator other than `is` on operands that are not of one
\* numeric type becomes a call of the method of the first implementation,
\* for the type of the left operand, of the operator's interface whose
\* second parameter has the type of the right operand, with both operands
\* as arguments, wrapped in a unary `!` for `!=`; without such an
\* implementation it fails with "No implementation of operator found for
\* types."; operands of one numeric type become a Binary.
C17_OperatorOverloading ==
    (callRes.op = "binary" /\ callRes.operator # "Is") =>
        LET l == callRes.left
            r == callRes.right
            impls == GetIfaceImpls(l.ty)
            iface == IF callRes.operator = "Plus" THEN "Add" ELSE "Equal"
            found == {i \in 1..Len(impls) :
                         /\ impls[i].proto = iface
                         /\ impls[i].method.parameters[2] = r.ty}
            CallOfImpl(i) ==
                Call(VarGet(Var(impls[i].method.name, "fn m", FALSE)),
                     <<l, r>>)
        IN IF l.ty = r.ty /\ l.ty \in {"I32", "I64"}
           THEN callRes.res = Ok(Binary(l, callRes.operator, r))
           ELSE IF found = {} THEN callRes.res.err = ErrNoOperator
           ELSE \E i \in found :
                   /\ \A j \in found : i <= j
                   /\ callRes.res.err = None
                   /\ callRes.res.expr =
                         IF callRes.operator = "BangEqual"
                         THEN Unary(CallOfImpl(i), "Bang")
                         ELSE CallOfImpl(i)

\* `!=` on two objects of a class that implements Equal became the negated
\* call of the method; the class implements Add for another right operand
\* type as well.
C17_Witness ==
    /\ callRes.op = "binary"
    /\ callRes.operator = "BangEqual"
    /\ callRes.res.err = None
    /\ callRes.res.expr.kind = "Unary"
    /\ callRes.res.expr.right.kind = "Call"
    /\ Len(GetIfaceImpls(callRes.left.ty)) > 2

\* C18: `left is right` is accepted exactly when the right operand has a
\* type Type(T), and is then a Binary of type Bool; a right operand that is
\* a value is an error whatever the type of the left operand.
C18_IsNeedsType ==
    (callRes.op = "binary" /\ callRes.operator = "Is") =>
        /\ (callRes.res.err = None) <=> IsTypeType(callRes.right.ty)
        /\ callRes.res.err = None =>
              /\ callRes.res.expr = Binary(callRes.left, "Is", callRes.right)
              /\ callRes.res.expr.ty = "Bool"

\* The expression() calls of the generator that is running: those made
\* since the innermost closure literal was entered.
OwnFrames == {i \in 1..Len(frames) : \A j \in ClosureFrames : i > j}

\* The running generator is lowering a `for`.
LoopBeingLowered == \E i \in OwnFrames : frames[i].kind = "for"

\* The loop has no result variable yet, or the value expression() just
\* returned has the type of the loop's result variable.
LoopVarFits ==
    \/ currentLoop.result_var = NoType
    \/ TypeEq(currentLoop.result_var, ret.ty)

\* The type of the loop's result variable once that value has been seen.
LoopVarAfter ==
    IF currentLoop.result_var = NoType THEN ret.ty
    ELSE currentLoop.result_var

\* C19: a break is accepted only while the running generator lowers a
\* loop, and with a value only when the value has the type of the loop's
\* result variable, which is created with the type of the first break value
\* or body seen; a value or body of another type is the error "Break
\* expressions and for body must have same type"; a break outside any loop,
\* also after a loop has been lowered and in a closure literal in the body
\* of a loop, is the error "Break is only allowed in loops."
C19_BreakOnlyInLoops ==
    /\ [](ret.kind = "Break" => LoopBeingLowered)
    /\ [][Resumed("break") =>
            IF LoopVarFits
            THEN /\ genErr' = genErr
                 /\ ret' = Break(ret)
                 /\ currentLoop' = ForLoop(LoopVarAfter)
            ELSE genErr' = ErrBreakType /\ ret' = NoRet]_vars
    /\ [][(Resumed("for") /\ Top.stage = "body") =>
            IF LoopVarFits
            THEN /\ genErr' = genErr
                 /\ Len(frames') = Len(frames) =>
                       currentLoop' = ForLoop(LoopVarAfter)
            ELSE genErr' = ErrBreakType /\ ret' = NoRet]_vars
    /\ [][(Awaiting /\ ~LoopBeingLowered) =>
            /\ ret'.kind # "Break"
            /\ frames' # << >> => frames'[Len(frames')].kind # "break"]_vars
    /\ [][genErr' = ErrBreakOutsideLoop => ~LoopBeingLowered]_vars

\* The name the pass is about to declare a function under.
ItemFunctionName ==
    IF Item.op = "function" THEN Item.sig.name
    ELSE declList.classes[Item.class].name \o "-" \o
         declList.classes[Item.class].methods[Item.method].name

\* The name is that of a class or function declared so far.
Taken(name) ==
    name \in structs \cup {functions[i].name : i \in 1..Len(functions)}

Consumed(pos) == Cardinality({i \in 1..pos : ~ShouldSkip(lexemes[i].kind)})
\* the index of the next significant token at position pos, 0 at the end
NextSignificant(pos) ==
    LET rest == {i \in (pos + 1)..Len(lexemes) : ~ShouldSkip(lexemes[i].kind)}
    IN IF rest = {} THEN 0 ELSE CHOOSE i \in rest : \A j \in rest : i <= j
TokenEvents(evs) == Cardinality({i \in 1..Len(evs) : evs[i].ev = "AddToken"})

ConsumeResult(kinds, msg) ==
    LET next == NextSignificant(srcPos)
    IN /\ pstate' = "parsing"
       /\ IF next # 0 /\ lexemes[next].kind \in kinds
          THEN /\ events' = Append(events, AddTokenEv(lexemes[next]))
               /\ TokenEvents(events') = TokenEvents(events) + 1
               /\ Consumed(srcPos') = Consumed(srcPos) + 1
               /\ srcPos' = next
               /\ errors' = errors
          ELSE /\ Len(errors') = Len(errors) + 1
               /\ SubSeq(errors', 1, Len(errors)) = errors
               /\ errors'[Len(errors')] =
                      <<IF next = 0 THEN Len(lexemes) ELSE next - 1, msg>>
               /\ events' = events
               /\ Consumed(srcPos') = Consumed(srcPos)

DeclErrors == IF declErr = None THEN << >> ELSE <<declErr>>
\* the classes and the functions of the list named like an earlier one
ClassesDefinedTwice ==
    {c \in 1..Len(declList.classes) :
        \E b \in 1..(c - 1) : declList.classes[b].name = declList.classes[c].name}
FunctionsDeclaredTwice ==
    LET fs == declList.ext_functions \o declList.functions
    IN {i \in 1..Len(fs) : \E j \in 1..(i - 1) : fs[j].name = fs[i].name}
Count(errs, msg) == Cardinality({i \in 1..Len(errs) : errs[i] = msg})

C22_AllErrorsReturned ==
    ~DeclRunning =>
        /\ declPc > Len(Work(declList))
        /\ Count(DeclErrors, ErrClassDefined) >= Cardinality(ClassesDefinedTwice)
        /\ Count(DeclErrors, ErrDeclaredTwice) >= Cardinality(FunctionsDeclaredTwice)

(***************************************************************************)
(* C23: insert_var never replaces an entry of the variable table: every    *)
(* call adds exactly one entry and leaves the others alone, and the name   *)
(* it returns was not in the table before the call and is the given name   *)
(* or the given name followed by `-{n}`.                                   *)
(***************************************************************************)
LastInsert == insertLog'[Len(insertLog')]

C23_InsertVarNeverReplaces ==
    [][Len(insertLog') = Len(insertLog) + 1 =>
          /\ Cardinality(DOMAIN fnVariables') = Cardinality(DOMAIN fnVariables) + 1
          /\ \A n \in DOMAIN fnVariables : fnVariables'[n] = fnVariables[n]
          /\ LastInsert.returned \notin DOMAIN fnVariables
          /\ fnVariables'[LastInsert.returned] = Len(insertLog')
          /\ \/ LastInsert.returned = LastInsert.name
             \/ \E k \in 0..MaxInserts :
                   LastInsert.returned = LastInsert.name \o "-" \o ToString(k)]_vars

(***************************************************************************)
(* C24: a Switch produced by lowering a `when` has phi_type Some(T) only   *)
(* if every branch and the else branch yield T and T is not None, and has  *)
(* no phi_type when the branches yield None; lowering fails with 'Branch   *)
(* results must be of same type.' when the type of a branch differs from   *)
(* the type of the else branch.                                            *)
(***************************************************************************)
SwitchPhiFits(e) ==
    /\ e.phi_type # NoType =>
          /\ e.phi_type # "None"
          /\ TypeEq(e.elseTy, e.phi_type)
          /\ \A i \in 1..Len(e.branchTys) : TypeEq(e.branchTys[i], e.phi_type)
    /\ (e.elseTy = "None" /\ \A i \in 1..Len(e.branchTys) : e.branchTys[i] = "None")
          => e.phi_type = NoType

C24_SwitchPhiType ==
    [][/\ ret'.kind = "Switch" => SwitchPhiFits(ret')
       /\ (Resumed("when") /\ Top.stage = "branch" /\ ~TypeEq(ret.ty, Top.else.ty))
             => genErr' = ErrWhenBranch]_vars

(***************************************************************************)
(* C25: the smart-cast walk over the condition of a branch descends only   *)
(* through `and`.  Each `x is T` it reaches this way whose left operand is *)
(* a variable read gives one store of a cast of the old x to T into a new  *)
(* immutable variable x of type T; the stores are in the block of the      *)
(* branch before the branch's own expression, in the left-to-right order   *)
(* of the condition.  An `is` under `or`, under a negation or with another *)
(* left operand gives no store and no variable.                            *)
(***************************************************************************)
\* the places of a condition: the operands taken from the root, 1 for the
\* left (or only) operand and 2 for the right one
CondPaths == UNION {[1..n -> {1, 2}] : n \in 0..MaxCondDepth}
RECURSIVE NodeAt(_, _)
NodeAt(expr, path) ==
    IF path = << >> THEN expr
    ELSE IF expr.kind = "Binary"
    THEN NodeAt(IF Head(path) = 1 THEN expr.left ELSE expr.right, Tail(path))
    ELSE IF expr.kind = "Unary" /\ Head(path) = 1
    THEN NodeAt(expr.right, Tail(path))
    ELSE NoRet
\* every operator above the place is an `and`
UnderAndOnly(cond, path) ==
    \A k \in 0..(Len(path) - 1) :
        LET above == NodeAt(cond, SubSeq(path, 1, k))
        IN above.kind = "Binary" /\ above.op = "And"
IsOfVariable(e) == e.kind = "Binary" /\ e.op = "Is" /\ e.left.kind = "VarGet"
\* the places of the `x is T` that rebind x
Rebinding(cond) ==
    {path \in CondPaths :
        UnderAndOnly(cond, path) /\ IsOfVariable(NodeAt(cond, path))}
\* place q is to the left of place p
LeftOf(q, p) ==
    \E i \in 1..Len(q) :
        /\ i <= Len(p)
        /\ q[i] < p[i]
        /\ \A j \in 1..(i - 1) : q[j] = p[j]
RankOf(cond, p) == Cardinality({q \in Rebinding(cond) : LeftOf(q, p)}) + 1

C25_SmartCastWalk ==
    castOut.lowered =>
        LET cond == castIn.cond
            stores == castOut.block.casts
        IN /\ Len(stores) = Cardinality(Rebinding(cond))
           /\ \A p \in Rebinding(cond) :
                 LET is == NodeAt(cond, p)
                     store == stores[RankOf(cond, p)]
                 IN /\ store.kind = "VarStore"
                    /\ store.var.name = is.left.var.name
                    /\ store.var.ty = AsType(is.right.ty)
                    /\ ~store.var.mutable
                    /\ store.value.kind = "Cast"
                    /\ store.value.ty = AsType(is.right.ty)
                    /\ store.value.inner = VarGet(CastScopes[1][is.left.var.name])
                    /\ castOut.scopes[2][is.left.var.name].ty
                          \in {st.var.ty : st \in {stores[i] : i \in 1..Len(stores)}}
           /\ Len(castOut.exprs) = Len(stores) + 1
           /\ SubSeq(castOut.exprs, 1, Len(stores)) = stores
           /\ castOut.exprs[Len(castOut.exprs)].kind = "VarGet"
           /\ DOMAIN castOut.scopes[2] =
                 {NodeAt(cond, p).left.var.name : p \in Rebinding(cond)}
           /\ castOut.scopes[1] = CastScopes[1]

\* `(a is C and b is C) and (a is P or ...)` or the like has been lowered:
\* two rebindings, and an `is` of a variable that rebinds nothing
C25_Witness ==
    /\ castOut.lowered
    /\ Cardinality(Rebinding(castIn.cond)) >= 2
    /\ \E p \in CondPaths :
          /\ IsOfVariable(NodeAt(castIn.cond, p))
          /\ p \notin Rebinding(castIn.cond)
    /\ castOut.exprs[Len(castOut.exprs)].var.ty # "Any"

(***************************************************************************)
(* C26: lowering a closure literal leaves the scopes of the enclosing      *)
(* function alone: when closure() returns, with its result or with an      *)
(* error of the closure's body, the generator of the function has the      *)
(* scopes and bindings it had when closure() was called.                   *)
(***************************************************************************)
C26_ClosureKeepsScopes ==
    [][/\ Resumed("closure") => environments' = Top.outerEnv
       /\ (InClosure /\ genErr' # None /\ frames' = << >>)
             => environments' = OutermostClosure.outerEnv]_vars

(***************************************************************************)
(* C27: check_next is a pure lookahead: called with at least two           *)
(* significant tokens left, it leaves the source position and the event    *)
(* list as they were, so that no token ever has two AddToken events.       *)
(***************************************************************************)
SignificantLeft(pos) == Consumed(Len(lexemes)) - Consumed(pos)

C27_CheckNextIsPure ==
    [][/\ (CheckNext /\ SignificantLeft(srcPos) >= 2)
             => srcPos' = srcPos /\ events' = events
       /\ \A i \in 1..Len(lexemes) :
             Cardinality({k \in 1..Len(events') :
                             events'[k] = AddTokenEv(lexemes[i])}) <= 1]_vars

(***************************************************************************)
(* C28: scope pushes and pops are balanced: when expression() returns,     *)
(* with its result or with an error from inside a block, a branch or a     *)
(* loop, the scope stack is as deep as it was when expression() was called *)
(* and current_loop is the loop (or none) it was then.                     *)
(***************************************************************************)
\* the scopes an expression() call in progress has begun and not ended
ScopesHeld(f) ==
    IF f.kind = "block" THEN 1
    ELSE IF f.kind \in {"if", "when"} /\ f.stage \in {"then", "branch"} THEN 1
    ELSE 0
ScopesOpen(fs) == Cardinality({i \in 1..Len(fs) : ScopesHeld(fs[i]) = 1})
\* current_loop when the outermost expression() call in progress began
LoopAtCall(fs) ==
    LET fors == {i \in 1..Len(fs) : fs[i].kind = "for"}
    IN IF fors = {} THEN currentLoop
       ELSE fs[CHOOSE i \in fors : \A j \in fors : i <= j].prev_loop

C28_ScopesBalanced ==
    [][/\ (frames # << >> /\ ~InClosure /\ genErr' # None /\ frames' = << >>)
             => /\ Len(environments') = Len(environments) - ScopesOpen(frames)
                /\ currentLoop'.loop = LoopAtCall(frames).loop
       /\ (frames # << >> /\ ~InClosure /\ genErr' = genErr
              /\ unitKind' = unitKind /\ Len(frames') = Len(frames) - 1)
             => /\ Len(environments') = Len(environments) - ScopesHeld(Top)
                /\ currentLoop'.loop =
                      (IF Top.kind = "for" THEN Top.prev_loop
                       ELSE currentLoop).loop]_vars

(***************************************************************************)
(* C29: after fill_class has succeeded the fields of the class have the    *)
(* layout indices 0..n-1 in declaration order, members and member_order    *)
(* hold the same n fields, no two fields share a name or an index and no   *)
(* field has the name of a method.  For a class with a field declared      *)
(* twice or named like a method, fill_class returns an error and leaves    *)
(* members and member_order as they were.                                  *)
(***************************************************************************)
DeclaredTwice ==
    \E i \in 1..Len(fillFields), j \in 1..Len(fillFields) :
        i # j /\ fillFields[i].name = fillFields[j].name
NamedLikeMethod ==
    \E i \in 1..Len(fillFields) : fillFields[i].name \in classDef.methods

C29_FillClassLayout ==
    fillRes.returned =>
        LET n == Len(fillFields)
            order == classDef.member_order
            members == classDef.members
        IN /\ fillRes.err = None =>
                 /\ Len(order) = n
                 /\ \A k \in 1..n :
                       /\ order[k].index = k - 1
                       /\ fillFields[k].name \in DOMAIN members
                       /\ members[fillFields[k].name] = order[k]
                 /\ DOMAIN members = {fillFields[k].name : k \in 1..n}
                 /\ Cardinality(DOMAIN members) = n
                 /\ \A a \in DOMAIN members, b \in DOMAIN members :
                       a # b => members[a].index # members[b].index
                 /\ DOMAIN members \cap classDef.methods = {}
           /\ (DeclaredTwice \/ NamedLikeMethod) => fillRes.err # None
           /\ fillRes.err # None =>
                 /\ members = NoMembers
                 /\ order = << >>

\* fill_class has filled a class of three fields that has a method
C29_Witness ==
    /\ fillRes.returned
    /\ fillRes.err = None
    /\ Len(classDef.member_order) = 3
    /\ classDef.methods # {}

(***************************************************************************)
(* C30: build_call increments every argument value once before the call   *)
(* instruction and decrements it once after it, in the order of the        *)
(* arguments, so that its increments and decrements of each value cancel;  *)
(* it pushes the call's result once to the current locals; and once a      *)
(* Return has cleared the insertion position, no expression() call that    *)
(* begins later makes any call on the builder, the reference counts or     *)
(* the locals.                                                             *)
(***************************************************************************)
\* the places of the log whose call was made for the expression at path
MadeBy(path) == SelectSeq(irGen.log, LAMBDA e : e.by = path)
OpsOf(entries) == [i \in 1..Len(entries) |-> entries[i].op]
ValuesOf(entries) == [i \in 1..Len(entries) |-> entries[i].v]
Repeat(op, n) == [i \in 1..n |-> op]
CallPaths == {irGen.log[i].by : i \in {j \in 1..Len(irGen.log) :
                                          irGen.log[j].op = "build_call"}}
IsAncestor(path, of) ==
    Len(path) < Len(of) /\ SubSeq(of, 1, Len(path)) = path
TimesIn(entries, op, v) ==
    Cardinality({i \in 1..Len(entries) : entries[i].op = op /\ entries[i].v = v})

BuildCallBalanced ==
    \A path \in CallPaths :
        LET made == MadeBy(path)
            n == (Len(made) - 2) \div 2
            arguments == made[n + 1].v
        IN /\ Len(made) = 2 * n + 2
           /\ Len(arguments) = n
           /\ OpsOf(made) = Repeat("increment_refcount", n)
                            \o <<"build_call", "locals_push">>
                            \o Repeat("decrement_refcount", n)
           /\ ValuesOf(SubSeq(made, 1, n)) = arguments
           /\ ValuesOf(SubSeq(made, n + 3, 2 * n + 2)) = arguments
           /\ \A v \in {arguments[i] : i \in 1..n} :
                  TimesIn(made, "increment_refcount", v)
                      = TimesIn(made, "decrement_refcount", v)

NothingBeginsAfterReturn ==
    \A i \in 1..Len(irGen.log), j \in 1..Len(irGen.log) :
        (i < j /\ irGen.log[i].op = "build_return")
            => IsAncestor(irGen.log[j].by, irGen.log[i].by)

C30_BuildCallBalanced ==
    [][/\ BuildCallBalanced'
       /\ NothingBeginsAfterReturn'
       /\ (IRGenerating /\ InsertBlockIsNone(irGen))
              => (irGen' = irGen /\ irValue' = IRNoneConst)]_vars

\* a call of two arguments has been built, and expression() has been
\* called on a call after a Return cleared the insertion position
C30_Witness ==
    /\ irPc = 3
    /\ Len(irBody) = 2
    /\ irBody[2].kind = "Call"
    /\ InsertBlockIsNone(irGen)
    /\ \E path \in CallPaths : Len(MadeBy(path)) = 6

====
